---------------------------- MODULE Spec2Model ----------------------------
(***************************************************************************)
(* A model of the Civitai model downloader: the resumable transfer engine  *)
(* (CivitaiDownloader.download_file), the single-download command built on *)
(* it (main / download_model) and the CSV download ledger                  *)
(* (DownloadHistoryManager).                                               *)
(*                                                                         *)
(* Files are byte sequences.  The served file is Body, whose bytes are     *)
(* pairwise distinct so that a duplicated, missing or reordered byte shows *)
(* in the content.                                                         *)
(***************************************************************************)
EXTENDS Integers, Sequences, FiniteSets, TLC

\* ------------------------------------------------------------------ bounds

\* Number of bytes of the served file.
BodyLen == 3

\* Largest chunk iter_chunked hands out (the program's 4 MiB, scaled down).
ChunkSize == 2

\* Number of times the download command is run, one run after the other.
MaxCalls == 3

\* Number of record_download calls on one ledger.
MaxRecords == 3

\* Largest provider id passed to record_download.
MaxId == 1

\* Largest number of fields of a row that reach the file when a write fails.
MaxCut == 2

\* Longest path of a URL, in symbols.
MaxPathLen == 6

\* Most tags of a model.
MaxTags == 3

\* Most files below a scanned directory.
MaxDirFiles == 3

\* ------------------------------------------------------------ pure helpers

Min(a, b) == IF a < b THEN a ELSE b

\* The served file: byte i at position i.
Body == [i \in 1..BodyLen |-> i]

\* Optional values: <<>> is None, <<v>> is the value v.
None == <<>>

Some(v) == <<v>>

\* Python truthiness of an Optional[int]: None and 0 are false.
Truthy(opt) == opt # None /\ opt[1] # 0

\* The statuses after which download_file goes on to stream the body.
OkStatuses == {200, 206}

\* The statuses an unwilling server answers with.
ErrorStatuses == {401, 403, 404, 500}

\* How a server answers one GET whose Range header starts at offset
\* (offset 0: no Range header was sent).
\*   "range"   honours byte ranges: 206 with the rest of the file, and 416
\*             when the range starts at or after the end of the file;
\*   "norange" ignores the Range header: 200 with the full body;
\*   "error"   refuses with the status err.
ServerKinds == {"range", "norange", "error"}

Respond(kind, offset, err) ==
    CASE kind = "error" ->
           [status |-> err, body |-> <<>>, contentLength |-> 0]
      [] kind = "norange" \/ offset = 0 ->
           [status |-> 200, body |-> Body, contentLength |-> Len(Body)]
      [] offset < Len(Body) ->
           [status |-> 206,
            body |-> SubSeq(Body, offset + 1, Len(Body)),
            contentLength |-> Len(Body) - offset]
      [] OTHER ->
           [status |-> 416, body |-> <<>>, contentLength |-> 0]

\* download_file, status check: every status but 200 and 206 ends the call.
IsFailureStatusNarrow(s) == s \in {401, 403, 404}

IsFailureStatus(s) ==
    s = 401 \/ s = 403 \/ s = 404 \/ s \notin OkStatuses

\* download_file: total_size from content-length, plus the offset on 206.
TotalSize(s, contentLength, offset) ==
    IF s = 206 THEN contentLength + offset ELSE contentLength

\* download_file: the mode the temporary file is opened in.
OpenModeAlwaysTruncate(offset) == "wb"

OpenMode(offset) == IF offset > 0 THEN "ab" ELSE "wb"

\* open(path, mode): the content right after opening.
Opened(mode, exists, data) ==
    IF mode = "ab" /\ exists THEN data ELSE <<>>

\* main: the history is written only for a successful download with its info.
RecordsHistoryAlways(success, hasInfo) == TRUE

RecordsHistory(success, hasInfo) == success /\ hasInfo

\* ------------------------------------------------------------ ledger rows

CSV_HEADERS ==
    <<"timestamp", "model_type", "url", "filename",
      "model_id", "version_id", "file_size", "file_size_bytes">>

\* str(n) of a non-negative integer.
Str(n) == ToString(n)

\* str(x) if x else "": None and 0 are both written as the empty field.
IdToField(opt) == IF Truthy(opt) THEN Str(opt[1]) ELSE ""

\* _format_file_size, for sizes below 1024 bytes.
FormatFileSize(n) == Str(n) \o ".00 B"

\* record_download: the row written for one download.
RowDataSwapped(ts, url, model_type, filename, model_id, version_id, file_size) ==
    << ts, model_type, url, filename,
       IdToField(version_id), IdToField(model_id),
       IF Truthy(file_size) THEN FormatFileSize(file_size[1]) ELSE "Unknown",
       IdToField(file_size) >>

RowData(ts, url, model_type, filename, model_id, version_id, file_size) ==
    << ts, model_type, url, filename,
       IdToField(model_id), IdToField(version_id),
       IF Truthy(file_size) THEN FormatFileSize(file_size[1]) ELSE "Unknown",
       IdToField(file_size) >>

\* Python's None where a string is expected: the value csv.DictReader gives
\* a column the row is too short for, and the key under which it collects
\* the fields a row has beyond the last column.
RestVal == "None"

\* csv.DictReader: the first row names the columns, every later row is one
\* dictionary keyed by those names.
DictReader(file) ==
    IF file = <<>> THEN <<>>
    ELSE LET fieldnames == file[1]
             n == Len(fieldnames)
             Column(h) == CHOOSE k \in 1..n : fieldnames[k] = h
             Keys(row) == {fieldnames[k] : k \in 1..n}
                            \cup (IF Len(row) > n THEN {RestVal} ELSE {})
         IN  [i \in 1..(Len(file) - 1) |->
                LET row == file[i + 1]
                IN  [h \in Keys(row) |->
                       IF h = RestVal /\ RestVal \notin {fieldnames[k] : k \in 1..n}
                         THEN SubSeq(row, n + 1, Len(row))
                       ELSE IF Column(h) <= Len(row) THEN row[Column(h)]
                       ELSE RestVal]]

\* get_all_downloads(remove_duplicates=False).
GetAllDownloadsRaw(exists, file) ==
    IF ~exists THEN <<>> ELSE DictReader(file)

\* ------------------------------------------------------------------- state

VARIABLES
    pc,             \* where the running command stands
    calls,          \* runs of the download command started so far
    argUrl,         \* the kind of URL given to this run
    nestedName,     \* the file name from the provider has a directory part
    partExists,     \* the temporary file save_path + '.part' exists
    part,           \* its bytes
    finalExists,    \* the file at save_path exists
    final,          \* its bytes
    dirExists,      \* os.path.dirname(save_path) exists
    status,         \* response.status (0: no response yet)
    contentLength,  \* the response's content-length header
    stream,         \* the bytes of the response body not yet received
    resume_offset,
    total_size,
    mode,
    downloaded,
    requests,       \* GET requests download_file issued in this run
    result,         \* what download_file returned: <<ok, message>>
    dmResult,       \* what download_model returned: <<ok, has download_info>>
    historyExists,  \* the ledger file exists
    historyFile,    \* its rows, the header row first
    recordResult,   \* what record_download returned
    exitStatus,     \* sys.exit status of the run (-1: still running)
    \* history variables, read only by the properties
    outcome,        \* how the run ended
    interruptedAt,  \* pc at which the run was interrupted
    respKind,       \* how the server answered this run's request
    partAtCall,     \* <<partExists, part>> when download_file was entered
    finalAtCall,    \* <<finalExists, final>> when download_file was entered
    dirAtCall,      \* dirExists when download_file was entered
    written,        \* the bytes this run wrote to the temporary file
    historyAtStart, \* the ledger rows when the run started
    renames,        \* renames of the temporary file to the final path so far
    prevOutcome,    \* outcome of the run before this one
    onlyRange,      \* every answer so far came from a range-honouring server
    ledgerWrite,    \* "ok" / "failed": how this run's ledger write went
    \* the ledger on its own
    passed,         \* arguments of the record_download calls that wrote a row
    listing,        \* what the last get_all_downloads returned
    listedOf,       \* the value of passed when it returned
    \* the ledger's compaction and its deduplicated listing
    original_downloads, \* clean_duplicates: the rows it read
    unique_downloads,   \* clean_duplicates: what _remove_duplicates kept
    backupExists,   \* the file history_file + '.backup' exists
    backupFile,     \* its rows, the header row first
    cleanResult,    \* what the last clean_duplicates returned (-1: none yet)
    cleanedFrom,    \* the ledger rows when the last clean_duplicates began
    cleanedTo,      \* the ledger rows when it returned
    backupAtStart,  \* <<backupExists, backupFile>> when it began
    uniqueListing,  \* what the last get_all_downloads(True) returned
    uniqueOf,       \* the records the ledger held when it returned
    lineOpen,       \* the ledger's last line has no line terminator
    \* the metadata scanner (scan_model_file)
    scFile,         \* the file it is given
    session,        \* the scanner has an HTTP session
    attempt,        \* _search_civitai_api: the loop variable
    version_info,   \* _search_civitai_api: the by-hash answer's body
    trace,          \* the requests made so far, with the waits after them
    primaryReturn,  \* what _search_civitai_api returned
    model_info,     \* what _search_model_by_hash returned
    metadata,       \* the ModelMetadata object
    scReturned,     \* how scan_model_file ended
    \* the downloader's lookup (get_model_version_info)
    gvArgs,         \* <<model_id, version_id>> it was called with
    gvVersion,      \* the version request's body
    gvTrace,        \* the requests it made
    gvResult,       \* what it returned
    \* the three type tables, each applied to one provider type
    provType,       \* version_info['model']['type']
    manualType,     \* the category given with -t
    scannerSays,    \* _detect_model_type_from_api's category
    classifierSays, \* classify_from_metadata's category
    manualSays,     \* the verdict of download_model's manual check
    \* parse_url
    givenUrl,       \* the URL it is given
    parsed,         \* what it returned, or "ValueError"
    classifierReason, \* classify_from_metadata's reason
    \* _detect_lora_subcategory
    tags,           \* the tags it is given
    lora_subcategory, \* what it returned ("pending": not called yet)
    \* scan_directory
    dirListing,     \* the files below the directory, None when it is missing
    recursive,
    dirPos,         \* entries of the listing the loop has passed
    metadata_list,
    scannedAt,      \* the entries scan_model_file returned metadata for
    dirReturned,    \* scan_directory has returned metadata_list
    \* the redownload-all command (main, redownload_all)
    force,          \* --force was given
    rdDownloads,      \* the deduplicated history it read
    rdPos,          \* entries the loop has passed
    success_count,
    error_count,
    skipped,        \* entries passed over as already downloaded
    processed,      \* the entries the loop took up, in its order
    attempted,      \* the entries download_model was called for
    \* the ledger import (convert_to_csv)
    importList,     \* metadata_list, the entries it is given
    importPos,      \* entries the loop has passed
    added_count,
    skipped_count,
    importReturned, \* what convert_to_csv returned (-1: not yet)
    \* the configuration (ConfigManager)
    civitai_api_key, \* config['civitai_api_key'] ("": the key is absent)
    download_paths, \* the keys of config['download_paths']
    unwritable,     \* the keys whose directory os.makedirs cannot create
    validateResult, \* what validate() returned ("pending": not called)
    pathResult      \* get_download_path(c), for each category c asked

fileVars == <<partExists, part, finalExists, final, dirExists>>

callVars == <<status, contentLength, stream, resume_offset, total_size, mode,
              downloaded, requests, result, dmResult>>

ledgerVars == <<historyExists, historyFile>>

ghostVars == <<outcome, interruptedAt, respKind, partAtCall, finalAtCall,
               dirAtCall, written, historyAtStart, renames, prevOutcome,
               onlyRange, ledgerWrite>>

listVars == <<passed, listing, listedOf>>

compactVars == <<original_downloads, unique_downloads, backupExists,
                 backupFile, cleanResult, cleanedFrom, cleanedTo,
                 backupAtStart, uniqueListing, uniqueOf>>

resolveVars == <<scFile, session, attempt, version_info, trace,
                 primaryReturn, model_info, metadata, scReturned>>

lookupVars == <<gvArgs, gvVersion, gvTrace, gvResult>>

typeVars == <<provType, manualType, scannerSays, classifierSays, manualSays>>

urlVars == <<givenUrl, parsed>>

\* The state of the tools beside the download command and the scanner.
subcategoryVars == <<tags, lora_subcategory>>

dirVars == <<dirListing, recursive, dirPos, metadata_list, scannedAt,
             dirReturned>>

redownloadVars == <<force, rdDownloads, rdPos, success_count, error_count,
                    skipped, processed, attempted>>

importVars == <<importList, importPos, added_count, skipped_count,
                importReturned>>

configVars == <<civitai_api_key, download_paths, unwritable, validateResult,
                pathResult>>

toolVars == <<urlVars, classifierReason, subcategoryVars, dirVars,
              redownloadVars, importVars, configVars>>

\* What the download command and record_download leave alone.
extVars == <<compactVars, lineOpen, resolveVars, lookupVars, typeVars,
             toolVars>>

vars == <<pc, calls, argUrl, nestedName, fileVars, callVars, ledgerVars,
          recordResult, exitStatus, ghostVars, listVars, extVars>>

\* The state of what a run does not use.
CompactIdle ==
    /\ original_downloads = <<>> /\ unique_downloads = <<>>
    /\ backupExists = FALSE /\ backupFile = <<>>
    /\ cleanResult = -1
    /\ cleanedFrom = <<>> /\ cleanedTo = <<>>
    /\ backupAtStart = <<FALSE, <<>>>>
    /\ uniqueListing = <<>> /\ uniqueOf = <<>>

ResolveIdle ==
    /\ scFile = <<>> /\ session = FALSE /\ attempt = 0
    /\ version_info = <<>> /\ trace = <<>>
    /\ primaryReturn = <<>> /\ model_info = <<>>
    /\ metadata = <<>> /\ scReturned = "pending"

LookupIdle ==
    /\ gvArgs = <<>> /\ gvVersion = <<>> /\ gvTrace = <<>> /\ gvResult = <<>>

TypesIdle ==
    /\ provType = "" /\ manualType = ""
    /\ scannerSays = "" /\ classifierSays = "" /\ manualSays = ""

UrlIdle == givenUrl = <<>> /\ parsed = "pending"

SubcategoryIdle == tags = <<>> /\ lora_subcategory = "pending"

DirIdle ==
    /\ dirListing = <<>> /\ recursive = FALSE /\ dirPos = 0
    /\ metadata_list = <<>> /\ scannedAt = <<>> /\ dirReturned = FALSE

RedownloadIdle ==
    /\ force = FALSE /\ rdDownloads = <<>> /\ rdPos = 0
    /\ success_count = 0 /\ error_count = 0 /\ skipped = 0
    /\ processed = <<>> /\ attempted = <<>>

ImportIdle ==
    /\ importList = <<>> /\ importPos = 0
    /\ added_count = 0 /\ skipped_count = 0 /\ importReturned = -1

ConfigIdle ==
    /\ civitai_api_key = "" /\ download_paths = {} /\ unwritable = {}
    /\ validateResult = "pending" /\ pathResult = <<>>

ToolsIdle ==
    /\ UrlIdle /\ classifierReason = "" /\ SubcategoryIdle
    /\ DirIdle /\ RedownloadIdle /\ ImportIdle /\ ConfigIdle

ExtIdle ==
    /\ CompactIdle /\ lineOpen = FALSE
    /\ ResolveIdle /\ LookupIdle /\ TypesIdle
    /\ ToolsIdle

\* The URL the download command is given: one that names a model, one with
\* no model id in it (parse_url returns (None, None)), one urlparse rejects.
UrlKinds == {"valid", "noid", "raises"}

DownloadedUrl == "https://civitai.com/models/1?modelVersionId=1"

\* The record the download command writes for DownloadedUrl (the provider
\* gave no sizeKB, so file_size is 0).
DownloadedRow ==
    RowData("ts", DownloadedUrl, "lora", "model.safetensors",
            Some(1), Some(1), Some(0))

\* _ensure_csv_headers: a missing ledger file is created with the header row.
EnsureCsvHeaders(exists, file) == IF exists THEN file ELSE <<CSV_HEADERS>>

\* record_download, the write: one row appended, or nothing when it fails.
AppendRowFirst(file, row, writeOk) ==
    IF writeOk /\ file # <<>> THEN <<file[1], row>> \o Tail(file) ELSE file

AppendRow(file, row, writeOk) ==
    IF writeOk THEN Append(file, row) ELSE file

\* check_url_downloaded.
CheckUrlDownloaded(exists, file, url) ==
    LET all == GetAllDownloadsRaw(exists, file)
    IN  \E i \in 1..Len(all) : all[i]["url"] = url

\* check_model_downloaded.
CheckModelDownloaded(exists, file, model_id, version_id) ==
    LET all == GetAllDownloadsRaw(exists, file)
    IN  \E i \in 1..Len(all) :
            /\ all[i]["model_id"] = Str(model_id)
            /\ all[i]["version_id"] = Str(version_id)

\* --------------------------------------------------- the download command

\* main, up to the call of download_model: the ledger is opened (and created
\* when missing); a URL already in the ledger is downloaded again only when
\* the user agrees (or --force / --yes is given).
MainStart ==
    /\ pc \in {"idle", "exited"}
    /\ calls < MaxCalls
    /\ \E u \in UrlKinds, proceed \in BOOLEAN :
         LET file == EnsureCsvHeaders(historyExists, historyFile)
             dup  == /\ u = "valid"
                     /\ \/ CheckUrlDownloaded(TRUE, file, DownloadedUrl)
                        \/ CheckModelDownloaded(TRUE, file, 1, 1)
         IN  /\ argUrl' = u
             /\ historyExists' = TRUE
             /\ historyFile' = file
             /\ historyAtStart' = file
             /\ IF dup /\ ~proceed
                  THEN /\ pc' = "exited"
                       /\ exitStatus' = 0
                       /\ outcome' = "declined"
                  ELSE /\ pc' = "dm_parse"
                       /\ exitStatus' = -1
                       /\ outcome' = "running"
    /\ calls' = calls + 1
    /\ prevOutcome' = outcome
    /\ status' = 0 /\ contentLength' = 0 /\ stream' = <<>>
    /\ resume_offset' = 0 /\ total_size' = 0 /\ mode' = "" /\ downloaded' = 0
    /\ requests' = 0 /\ result' = <<>> /\ dmResult' = <<>>
    /\ recordResult' = "" /\ ledgerWrite' = "none"
    /\ interruptedAt' = "" /\ respKind' = "" /\ written' = <<>>
    /\ partAtCall' = <<>> /\ finalAtCall' = <<>> /\ dirAtCall' = FALSE
    /\ UNCHANGED <<nestedName, fileVars, renames, onlyRange, listVars,
                   extVars>>

\* download_model returns (False, error, None) at the stage named by how.
DmFails(how) ==
    /\ dmResult' = <<FALSE, FALSE>>
    /\ outcome' = how
    /\ pc' = "main_result"

\* download_model: parse_url raised ValueError.
ParseUrl ==
    /\ pc = "dm_parse"
    /\ IF argUrl = "raises"
         THEN DmFails("parse")
         ELSE pc' = "dm_lookup" /\ UNCHANGED <<dmResult, outcome>>
    /\ UNCHANGED <<calls, argUrl, nestedName, fileVars, status, contentLength,
                   stream, resume_offset, total_size, mode, downloaded,
                   requests, result, ledgerVars, recordResult, exitStatus,
                   interruptedAt, respKind, partAtCall, finalAtCall, dirAtCall,
                   written, historyAtStart, renames, prevOutcome, onlyRange,
                   ledgerWrite, listVars,
                   extVars>>

\* download_model: get_model_version_info; it returns None for (None, None)
\* and whenever the provider does not answer 200.
Lookup ==
    /\ pc = "dm_lookup"
    /\ \E found \in BOOLEAN :
         IF argUrl = "noid" \/ ~found
           THEN DmFails("lookup")
           ELSE pc' = "dm_type" /\ UNCHANGED <<dmResult, outcome>>
    /\ UNCHANGED <<calls, argUrl, nestedName, fileVars, status, contentLength,
                   stream, resume_offset, total_size, mode, downloaded,
                   requests, result, ledgerVars, recordResult, exitStatus,
                   interruptedAt, respKind, partAtCall, finalAtCall, dirAtCall,
                   written, historyAtStart, renames, prevOutcome, onlyRange,
                   ledgerWrite, listVars,
                   extVars>>

\* download_model: the type is classified, or checked against -t.
TypeCheck ==
    /\ pc = "dm_type"
    /\ \E typeOk \in BOOLEAN :
         IF ~typeOk
           THEN DmFails("type")
           ELSE pc' = "dm_file" /\ UNCHANGED <<dmResult, outcome>>
    /\ UNCHANGED <<calls, argUrl, nestedName, fileVars, status, contentLength,
                   stream, resume_offset, total_size, mode, downloaded,
                   requests, result, ledgerVars, recordResult, exitStatus,
                   interruptedAt, respKind, partAtCall, finalAtCall, dirAtCall,
                   written, historyAtStart, renames, prevOutcome, onlyRange,
                   ledgerWrite, listVars,
                   extVars>>

\* download_model: the primary file of type Model, its URL and its name.
SelectFile ==
    /\ pc = "dm_file"
    /\ \E fileOk \in BOOLEAN :
         IF ~fileOk
           THEN DmFails("nofile")
           ELSE pc' = "dm_path" /\ UNCHANGED <<dmResult, outcome>>
    /\ UNCHANGED <<calls, argUrl, nestedName, fileVars, status, contentLength,
                   stream, resume_offset, total_size, mode, downloaded,
                   requests, result, ledgerVars, recordResult, exitStatus,
                   interruptedAt, respKind, partAtCall, finalAtCall, dirAtCall,
                   written, historyAtStart, renames, prevOutcome, onlyRange,
                   ledgerWrite, listVars,
                   extVars>>

\* download_model: get_download_path creates the category's directory, or
\* raises ValueError (caught by main, exit 1) when none is configured.  The
\* directory of save_path is that directory unless the name has its own.
GetDownloadPath ==
    /\ pc = "dm_path"
    /\ \E configured \in BOOLEAN :
         IF configured
           THEN /\ dirExists' = (dirExists \/ ~nestedName)
                /\ pc' = "df_begin"
                /\ UNCHANGED <<outcome, exitStatus>>
           ELSE /\ pc' = "exited"
                /\ exitStatus' = 1
                /\ outcome' = "path"
                /\ UNCHANGED dirExists
    /\ UNCHANGED <<calls, argUrl, nestedName, partExists, part, finalExists,
                   final, callVars, ledgerVars, recordResult,
                   interruptedAt, respKind, partAtCall, finalAtCall, dirAtCall,
                   written, historyAtStart, renames, prevOutcome, onlyRange,
                   ledgerWrite, listVars,
                   extVars>>

\* ------------------------------------------------------------ download_file

\* download_file returns (False, message); download_model passes it on.
DfFails(message, how) ==
    /\ result' = <<FALSE, message>>
    /\ DmFails(how)

\* download_file, entry: the size of an existing temporary file is the resume
\* offset, sent as 'Range: bytes=offset-' when positive; one GET is issued
\* and the server answers it.
Begin ==
    /\ pc = "df_begin"
    /\ \E kind \in ServerKinds, err \in ErrorStatuses :
         LET offset == IF partExists THEN Len(part) ELSE 0
             r      == Respond(kind, offset, err)
         IN  /\ resume_offset' = offset
             /\ status' = r.status
             /\ contentLength' = r.contentLength
             /\ stream' = r.body
             /\ respKind' = kind
             /\ onlyRange' = (onlyRange /\ kind = "range")
    /\ requests' = requests + 1
    /\ partAtCall' = <<partExists, part>>
    /\ finalAtCall' = <<finalExists, final>>
    /\ dirAtCall' = dirExists
    /\ pc' = "df_status"
    /\ UNCHANGED <<calls, argUrl, nestedName, fileVars, total_size, mode,
                   downloaded, result, dmResult, ledgerVars, recordResult,
                   exitStatus, outcome, interruptedAt, written, historyAtStart,
                   renames, prevOutcome, ledgerWrite, listVars,
                   extVars>>

\* download_file: the status check, then total_size, makedirs, mode and the
\* byte counter.
CheckStatus ==
    /\ pc = "df_status"
    /\ IF IsFailureStatus(status)
         THEN /\ DfFails("status", "status")
              /\ UNCHANGED <<total_size, mode, downloaded, dirExists>>
         ELSE /\ total_size' = TotalSize(status, contentLength, resume_offset)
              /\ dirExists' = TRUE
              /\ mode' = OpenMode(resume_offset)
              /\ downloaded' = resume_offset
              /\ pc' = "df_open"
              /\ UNCHANGED <<result, dmResult, outcome>>
    /\ UNCHANGED <<calls, argUrl, nestedName, partExists, part, finalExists,
                   final, status, contentLength, stream, resume_offset,
                   requests, ledgerVars, recordResult, exitStatus,
                   interruptedAt, respKind, partAtCall, finalAtCall, dirAtCall,
                   written, historyAtStart, renames, prevOutcome, onlyRange,
                   ledgerWrite, listVars,
                   extVars>>

\* download_file: open(part_path, mode).
OpenPart ==
    /\ pc = "df_open"
    /\ partExists' = TRUE
    /\ part' = Opened(mode, partExists, part)
    /\ pc' = "df_stream"
    /\ UNCHANGED <<calls, argUrl, nestedName, finalExists, final, dirExists,
                   callVars, ledgerVars, recordResult, exitStatus, ghostVars,
                   listVars,
                   extVars>>

\* download_file: one chunk of at most chunk_size bytes is received, written
\* and counted.
WriteChunk ==
    /\ pc = "df_stream"
    /\ stream # <<>>
    /\ \E n \in 1..Min(ChunkSize, Len(stream)) :
         LET chunk == SubSeq(stream, 1, n)
         IN  /\ part' = part \o chunk
             /\ written' = written \o chunk
             /\ downloaded' = downloaded + n
             /\ stream' = SubSeq(stream, n + 1, Len(stream))
    /\ UNCHANGED <<pc, calls, argUrl, nestedName, partExists, finalExists,
                   final, dirExists, status, contentLength, resume_offset,
                   total_size, mode, requests, result, dmResult, ledgerVars,
                   recordResult, exitStatus, outcome, interruptedAt, respKind,
                   partAtCall, finalAtCall, dirAtCall, historyAtStart, renames,
                   prevOutcome, onlyRange, ledgerWrite, listVars,
                   extVars>>

\* download_file: the body has ended; a file at the final path is removed.
RemoveStale ==
    /\ pc = "df_stream"
    /\ stream = <<>>
    /\ finalExists' = FALSE
    /\ final' = <<>>
    /\ pc' = "df_rename"
    /\ UNCHANGED <<calls, argUrl, nestedName, partExists, part, dirExists,
                   callVars, ledgerVars, recordResult, exitStatus, ghostVars,
                   listVars,
                   extVars>>

\* download_file: os.rename(part_path, save_path) and return (True, None);
\* download_model returns the download info.
Rename ==
    /\ pc = "df_rename"
    /\ finalExists' = TRUE
    /\ final' = part
    /\ partExists' = FALSE
    /\ part' = <<>>
    /\ renames' = renames + 1
    /\ result' = <<TRUE, "None">>
    /\ dmResult' = <<TRUE, TRUE>>
    /\ outcome' = "ok"
    /\ pc' = "main_result"
    /\ UNCHANGED <<calls, argUrl, nestedName, dirExists, status, contentLength,
                   stream, resume_offset, total_size, mode, downloaded,
                   requests, ledgerVars, recordResult, exitStatus,
                   interruptedAt, respKind, partAtCall, finalAtCall, dirAtCall,
                   written, historyAtStart, prevOutcome, onlyRange,
                   ledgerWrite, listVars,
                   extVars>>

\* download_file: an exception while the temporary file is opened or while
\* the body is read and written (connection drop, write error) is caught and
\* returned as (False, message).
StreamFailDeletesPart ==
    /\ pc \in {"df_open", "df_stream"}
    /\ pc = "df_stream" => stream # <<>>
    /\ DfFails("download error", "streamfail")
    /\ partExists' = FALSE
    /\ part' = <<>>
    /\ UNCHANGED <<calls, argUrl, nestedName, finalExists, final, dirExists,
                   status, contentLength, stream, resume_offset, total_size,
                   mode, downloaded, requests, ledgerVars, recordResult,
                   exitStatus, interruptedAt, respKind, partAtCall,
                   finalAtCall, dirAtCall, written, historyAtStart, renames,
                   prevOutcome, onlyRange, ledgerWrite, listVars,
                   extVars>>

StreamFail ==
    /\ pc \in {"df_open", "df_stream"}
    /\ pc = "df_stream" => stream # <<>>
    /\ DfFails("download error", "streamfail")
    /\ UNCHANGED <<calls, argUrl, nestedName, fileVars, status, contentLength,
                   stream, resume_offset, total_size, mode, downloaded,
                   requests, ledgerVars, recordResult, exitStatus,
                   interruptedAt, respKind, partAtCall, finalAtCall, dirAtCall,
                   written, historyAtStart, renames, prevOutcome, onlyRange,
                   ledgerWrite, listVars,
                   extVars>>

\* The run is interrupted inside download_file (KeyboardInterrupt, task
\* cancellation, the process is killed): no handler of download_file runs,
\* the open file is closed, main exits with status 130.
InterruptDeletesPart ==
    /\ pc \in {"df_status", "df_open", "df_stream", "df_rename"}
    /\ interruptedAt' = pc
    /\ outcome' = "interrupt"
    /\ exitStatus' = 130
    /\ pc' = "exited"
    /\ partExists' = FALSE
    /\ part' = <<>>
    /\ UNCHANGED <<calls, argUrl, nestedName, finalExists, final, dirExists,
                   callVars, ledgerVars, recordResult, respKind, partAtCall,
                   finalAtCall, dirAtCall, written, historyAtStart, renames,
                   prevOutcome, onlyRange, ledgerWrite, listVars,
                   extVars>>

Interrupt ==
    /\ pc \in {"df_status", "df_open", "df_stream", "df_rename"}
    /\ interruptedAt' = pc
    /\ outcome' = "interrupt"
    /\ exitStatus' = 130
    /\ pc' = "exited"
    /\ UNCHANGED <<calls, argUrl, nestedName, fileVars, callVars, ledgerVars,
                   recordResult, respKind, partAtCall, finalAtCall, dirAtCall,
                   written, historyAtStart, renames, prevOutcome, onlyRange,
                   ledgerWrite, listVars,
                   extVars>>

\* main: after download_model returned.
MainResult ==
    /\ pc = "main_result"
    /\ IF RecordsHistory(dmResult[1], dmResult[2])
         THEN pc' = "record" /\ UNCHANGED exitStatus
         ELSE pc' = "exited" /\ exitStatus' = 1
    /\ UNCHANGED <<calls, argUrl, nestedName, fileVars, callVars, ledgerVars,
                   recordResult, ghostVars, listVars,
                   extVars>>

\* record_download returns None whether or not its write failed, and main
\* then exits with status 0: what the caller of the command is told.
ReportedOutcome(writeOk) == <<"None", 0>>

\* main: record_download, whose write may fail (the exception is caught and
\* printed inside it), then sys.exit(0).
RecordDownload ==
    /\ pc = "record"
    /\ \E writeOk \in BOOLEAN :
         /\ historyFile' = AppendRow(historyFile, DownloadedRow, writeOk)
         /\ ledgerWrite' = IF writeOk THEN "ok" ELSE "failed"
         /\ recordResult' = ReportedOutcome(writeOk)[1]
         /\ exitStatus' = ReportedOutcome(writeOk)[2]
    /\ pc' = "exited"
    /\ UNCHANGED <<calls, argUrl, nestedName, fileVars, callVars, historyExists,
                   outcome, interruptedAt, respKind, partAtCall, finalAtCall,
                   dirAtCall, written, historyAtStart, renames, prevOutcome,
                   onlyRange, listVars,
                   extVars>>

InitDownload ==
    /\ pc = "idle" /\ calls = 0 /\ argUrl = ""
    /\ nestedName \in BOOLEAN
    /\ partExists = FALSE /\ part = <<>>
    /\ finalExists = FALSE /\ final = <<>>
    /\ dirExists = FALSE
    /\ status = 0 /\ contentLength = 0 /\ stream = <<>>
    /\ resume_offset = 0 /\ total_size = 0 /\ mode = "" /\ downloaded = 0
    /\ requests = 0 /\ result = <<>> /\ dmResult = <<>>
    /\ historyExists = FALSE /\ historyFile = <<>>
    /\ recordResult = "" /\ exitStatus = -1
    /\ outcome = "none" /\ interruptedAt = "" /\ respKind = ""
    /\ partAtCall = <<>> /\ finalAtCall = <<>> /\ dirAtCall = FALSE
    /\ written = <<>> /\ historyAtStart = <<>> /\ renames = 0
    /\ prevOutcome = "none" /\ onlyRange = TRUE /\ ledgerWrite = "none"
    /\ passed = <<>> /\ listing = <<>> /\ listedOf = <<>>
    /\ ExtIdle

NextDownload ==
    \/ MainStart
    \/ ParseUrl
    \/ Lookup
    \/ TypeCheck
    \/ SelectFile
    \/ GetDownloadPath
    \/ Begin
    \/ CheckStatus
    \/ OpenPart
    \/ WriteChunk
    \/ RemoveStale
    \/ Rename
    \/ StreamFail
    \/ Interrupt
    \/ MainResult
    \/ RecordDownload

SpecDownload == InitDownload /\ [][NextDownload]_vars

\* ------------------------------------------------------ the ledger by itself

\* The arguments record_download is called with.  Provider ids are None or
\* positive: the program treats a false id (None, 0) as absent throughout.
OptIds == {None} \cup {Some(i) : i \in 1..MaxId}

LedgerUrls == {"https://civitai.com/models/1", "https://civitai.com/models/2"}

ModelTypeOf(url) ==
    IF url = "https://civitai.com/models/1" THEN "lora" ELSE "checkpoint"

FilenameOf(url) ==
    IF url = "https://civitai.com/models/1" THEN "a.safetensors" ELSE "b.ckpt"

RecordArgs ==
    [url : LedgerUrls, model_id : OptIds, version_id : OptIds]

\* datetime.now() at the n-th call, as record_download formats it.
Timestamp(n) == "t" \o Str(n)

\* record_download(url, model_type, filename, model_id, version_id): one row
\* is appended, unless the write fails (caught, nothing is written).
LedgerRecord ==
    /\ pc = "ledger"
    /\ calls < MaxRecords
    /\ \E a \in RecordArgs, writeOk \in BOOLEAN :
         LET row == RowData(Timestamp(calls + 1), a.url, ModelTypeOf(a.url),
                            FilenameOf(a.url), a.model_id, a.version_id, None)
         IN  /\ historyFile' = AppendRow(historyFile, row, writeOk)
             /\ passed' = IF writeOk THEN Append(passed, a) ELSE passed
    /\ calls' = calls + 1
    /\ UNCHANGED <<pc, argUrl, nestedName, fileVars, callVars, historyExists,
                   recordResult, exitStatus, ghostVars, listing, listedOf,
                   extVars>>

\* get_all_downloads(remove_duplicates=False).
LedgerList ==
    /\ pc = "ledger"
    /\ listing' = GetAllDownloadsRaw(historyExists, historyFile)
    /\ listedOf' = passed
    /\ UNCHANGED <<pc, calls, argUrl, nestedName, fileVars, callVars,
                   ledgerVars, recordResult, exitStatus, ghostVars, passed,
                   extVars>>

\* A fresh ledger: DownloadHistoryManager was constructed on a missing file.
InitLedger ==
    /\ pc = "ledger" /\ calls = 0 /\ argUrl = ""
    /\ nestedName = FALSE
    /\ partExists = FALSE /\ part = <<>>
    /\ finalExists = FALSE /\ final = <<>>
    /\ dirExists = FALSE
    /\ status = 0 /\ contentLength = 0 /\ stream = <<>>
    /\ resume_offset = 0 /\ total_size = 0 /\ mode = "" /\ downloaded = 0
    /\ requests = 0 /\ result = <<>> /\ dmResult = <<>>
    /\ historyExists = TRUE /\ historyFile = EnsureCsvHeaders(FALSE, <<>>)
    /\ recordResult = "" /\ exitStatus = -1
    /\ outcome = "none" /\ interruptedAt = "" /\ respKind = ""
    /\ partAtCall = <<>> /\ finalAtCall = <<>> /\ dirAtCall = FALSE
    /\ written = <<>> /\ historyAtStart = <<>> /\ renames = 0
    /\ prevOutcome = "none" /\ onlyRange = TRUE /\ ledgerWrite = "none"
    /\ passed = <<>> /\ listing = <<>> /\ listedOf = <<>>
    /\ ExtIdle

NextLedger ==
    \/ LedgerRecord
    \/ LedgerList

SpecLedger == InitLedger /\ [][NextLedger]_vars

\* ------------------------------------------- deduplication and compaction

\* Python truthiness of a field read from the ledger.
Falsy(v) == v = "" \/ v = RestVal

\* dict.get(key, default).
Get(d, key, default) == IF key \in DOMAIN d THEN d[key] ELSE default

Reverse(seq) == [i \in 1..Len(seq) |-> seq[Len(seq) + 1 - i]]

\* _remove_duplicates, the loop from downloads[i] on: one set, seen, holds
\* the 'model_id_version_id' keys and the URLs met so far.
RECURSIVE RemoveDuplicatesFrom(_, _, _, _)
RemoveDuplicatesFrom(downloads, i, seen, unique) ==
    IF i > Len(downloads) THEN unique
    ELSE LET download   == downloads[i]
             model_id   == Get(download, "model_id", "")
             version_id == Get(download, "version_id", "")
             key        == model_id \o "_" \o version_id
             url        == Get(download, "url", "")
         IN  IF key \notin seen /\ ~Falsy(model_id) /\ ~Falsy(version_id)
               THEN RemoveDuplicatesFrom(downloads, i + 1, seen \cup {key},
                                         Append(unique, download))
             ELSE IF (Falsy(model_id) \/ Falsy(version_id))
                       /\ ~Falsy(url) /\ url \notin seen
               THEN RemoveDuplicatesFrom(downloads, i + 1, seen \cup {url},
                                         Append(unique, download))
             ELSE RemoveDuplicatesFrom(downloads, i + 1, seen, unique)

RemoveDuplicatesLastWins(downloads) ==
    Reverse(RemoveDuplicatesFrom(Reverse(downloads), 1, {}, <<>>))

\* _remove_duplicates.
RemoveDuplicates(downloads) == RemoveDuplicatesFrom(downloads, 1, {}, <<>>)

\* get_all_downloads(remove_duplicates=True).
GetAllDownloadsUnique(exists, file) ==
    IF ~exists THEN <<>> ELSE RemoveDuplicates(DictReader(file))

\* [download.get(header, '') for header in CSV_HEADERS], as csv.writer writes
\* it: None is written as the empty field.
WriteDict(download) ==
    [k \in 1..Len(CSV_HEADERS) |->
        LET v == Get(download, CSV_HEADERS[k], "")
        IN  IF v = RestVal THEN "" ELSE v]

\* A ledger file written from a list of dictionaries: the header row, then
\* one row for each.
WriteAll(downloads) ==
    <<CSV_HEADERS>> \o [i \in 1..Len(downloads) |-> WriteDict(downloads[i])]

\* clean_duplicates: the rows the backup file is written from.
BackupRowsUnique(original, unique) == unique

BackupRows(original, unique) == original

\* get_all_downloads(remove_duplicates=True).
LedgerListUnique ==
    /\ pc = "ledger"
    /\ uniqueListing' = GetAllDownloadsUnique(historyExists, historyFile)
    /\ uniqueOf' = GetAllDownloadsRaw(historyExists, historyFile)
    /\ UNCHANGED <<toolVars, pc, calls, argUrl, nestedName, fileVars, callVars,
                   ledgerVars, recordResult, exitStatus, ghostVars, listVars,
                   original_downloads, unique_downloads, backupExists,
                   backupFile, cleanResult, cleanedFrom, cleanedTo,
                   backupAtStart, lineOpen, resolveVars, lookupVars,
                   typeVars>>

\* clean_duplicates, up to the rewrite of the ledger: the rows are read and
\* deduplicated; when some were dropped the backup file is written, otherwise
\* 0 is returned with nothing written.  (Its reads and writes succeed.)
CleanDuplicatesBackup ==
    /\ pc = "ledger"
    /\ cleanedFrom' = historyFile
    /\ backupAtStart' = <<backupExists, backupFile>>
    /\ IF ~historyExists
         THEN /\ cleanResult' = 0
              /\ cleanedTo' = historyFile
              /\ UNCHANGED <<pc, original_downloads, unique_downloads,
                             backupExists, backupFile>>
         ELSE LET original == DictReader(historyFile)
                  unique   == RemoveDuplicates(original)
                  duplicates_removed == Len(original) - Len(unique)
              IN  /\ original_downloads' = original
                  /\ unique_downloads' = unique
                  /\ IF duplicates_removed > 0
                       THEN /\ backupExists' = TRUE
                            /\ backupFile' = WriteAll(BackupRows(original, unique))
                            /\ pc' = "clean_rewrite"
                            /\ cleanResult' = -1
                            /\ UNCHANGED cleanedTo
                       ELSE /\ cleanResult' = duplicates_removed
                            /\ cleanedTo' = historyFile
                            /\ UNCHANGED <<pc, backupExists, backupFile>>
    /\ UNCHANGED <<toolVars,
                   calls, argUrl, nestedName, fileVars, callVars, ledgerVars,
                   recordResult, exitStatus, ghostVars, listVars,
                   uniqueListing, uniqueOf, lineOpen, resolveVars, lookupVars,
                   typeVars>>

\* clean_duplicates, the rest: the ledger is rewritten from the rows kept and
\* the number of rows dropped is returned.
CleanDuplicatesRewrite ==
    /\ pc = "clean_rewrite"
    /\ historyFile' = WriteAll(unique_downloads)
    /\ cleanedTo' = WriteAll(unique_downloads)
    /\ cleanResult' = Len(original_downloads) - Len(unique_downloads)
    /\ pc' = "ledger"
    /\ UNCHANGED <<toolVars, calls, argUrl, nestedName, fileVars, callVars,
                   historyExists, recordResult, exitStatus, ghostVars,
                   listVars, original_downloads, unique_downloads,
                   backupExists, backupFile, cleanedFrom, backupAtStart,
                   uniqueListing, uniqueOf, lineOpen, resolveVars, lookupVars,
                   typeVars>>

\* The ledger after the record_download calls of recs, none of which failed.
LedgerOf(recs) ==
    <<CSV_HEADERS>> \o
    [i \in 1..Len(recs) |->
        RowData(Timestamp(i), recs[i].url, ModelTypeOf(recs[i].url),
                FilenameOf(recs[i].url), recs[i].model_id,
                recs[i].version_id, None)]

\* The records of the download command: a version id comes with a model id.
CommandArgs == {a \in RecordArgs : a.model_id = None => a.version_id = None}

\* A ledger of up to MaxRecords records, no backup file beside it.
InitCompact ==
    /\ pc = "ledger" /\ argUrl = ""
    /\ \E n \in 0..MaxRecords :
         \E recs \in [1..n -> CommandArgs] :
            /\ calls = n
            /\ passed = recs
            /\ historyFile = LedgerOf(recs)
    /\ historyExists = TRUE
    /\ nestedName = FALSE
    /\ partExists = FALSE /\ part = <<>>
    /\ finalExists = FALSE /\ final = <<>>
    /\ dirExists = FALSE
    /\ status = 0 /\ contentLength = 0 /\ stream = <<>>
    /\ resume_offset = 0 /\ total_size = 0 /\ mode = "" /\ downloaded = 0
    /\ requests = 0 /\ result = <<>> /\ dmResult = <<>>
    /\ recordResult = "" /\ exitStatus = -1
    /\ outcome = "none" /\ interruptedAt = "" /\ respKind = ""
    /\ partAtCall = <<>> /\ finalAtCall = <<>> /\ dirAtCall = FALSE
    /\ written = <<>> /\ historyAtStart = <<>> /\ renames = 0
    /\ prevOutcome = "none" /\ onlyRange = TRUE /\ ledgerWrite = "none"
    /\ listing = <<>> /\ listedOf = <<>>
    /\ ExtIdle

NextCompact ==
    \/ LedgerListUnique
    \/ CleanDuplicatesBackup
    \/ CleanDuplicatesRewrite

SpecCompact == InitCompact /\ [][NextCompact]_vars

\* The URLs record_download is called with by any caller: the download
\* command passes the URL it was given, the ledger import passes
\* metadata.get('civitai_url', ''), and the parameter is an unchecked string.
AnyUrls == {"", "1_1", "https://civitai.com/models/1"}

\* The records of any caller of record_download.
AnyRecordArgs ==
    [url : AnyUrls, model_id : {None, Some(1)}, version_id : {None, Some(1)}]

\* A ledger of up to MaxRecords records written by any caller, no backup
\* file beside it.
InitCompactAny ==
    /\ pc = "ledger" /\ argUrl = ""
    /\ \E n \in 0..MaxRecords :
         \E recs \in [1..n -> AnyRecordArgs] :
            /\ calls = n
            /\ passed = recs
            /\ historyFile = LedgerOf(recs)
    /\ historyExists = TRUE
    /\ nestedName = FALSE
    /\ partExists = FALSE /\ part = <<>>
    /\ finalExists = FALSE /\ final = <<>>
    /\ dirExists = FALSE
    /\ status = 0 /\ contentLength = 0 /\ stream = <<>>
    /\ resume_offset = 0 /\ total_size = 0 /\ mode = "" /\ downloaded = 0
    /\ requests = 0 /\ result = <<>> /\ dmResult = <<>>
    /\ recordResult = "" /\ exitStatus = -1
    /\ outcome = "none" /\ interruptedAt = "" /\ respKind = ""
    /\ partAtCall = <<>> /\ finalAtCall = <<>> /\ dirAtCall = FALSE
    /\ written = <<>> /\ historyAtStart = <<>> /\ renames = 0
    /\ prevOutcome = "none" /\ onlyRange = TRUE /\ ledgerWrite = "none"
    /\ listing = <<>> /\ listedOf = <<>>
    /\ ExtIdle

SpecCompactAny == InitCompactAny /\ [][NextCompact]_vars

\* ----------------------------------------------- the ledger on a failing disk

\* The bytes of fields, added at the end of the file: after a line that has
\* no terminator they continue that line.
WriteFields(file, open, fields) ==
    IF ~open THEN Append(file, fields)
    ELSE LET last == file[Len(file)]
         IN  [file EXCEPT ![Len(file)] =
                 SubSeq(last, 1, Len(last) - 1)
                   \o <<last[Len(last)] \o fields[1]>>
                   \o Tail(fields)]

\* The records passed with no provider ids.
PlainArgs == {a \in RecordArgs : a.model_id = None /\ a.version_id = None}

\* record_download on a disk whose writes can fail: open() fails and nothing
\* is written (cut = 0), or the row is buffered and written when the file is
\* closed, where the write either takes the whole line or raises OSError
\* after the first cut fields of it; the exception is caught and printed.
LedgerRecordIO ==
    /\ pc = "ledger"
    /\ calls < MaxRecords
    /\ \E a \in PlainArgs, writeOk \in BOOLEAN, cut \in 0..MaxCut :
         LET row == RowData(Timestamp(calls + 1), a.url, ModelTypeOf(a.url),
                            FilenameOf(a.url), a.model_id, a.version_id, None)
         IN  IF writeOk
               THEN /\ historyFile' = WriteFields(historyFile, lineOpen, row)
                    /\ lineOpen' = FALSE
                    /\ passed' = Append(passed, a)
             ELSE IF cut = 0
               THEN UNCHANGED <<historyFile, lineOpen, passed>>
             ELSE /\ historyFile' = WriteFields(historyFile, lineOpen,
                                                SubSeq(row, 1, cut))
                  /\ lineOpen' = TRUE
                  /\ UNCHANGED passed
    /\ calls' = calls + 1
    /\ UNCHANGED <<toolVars,
                   pc, argUrl, nestedName, fileVars, callVars, historyExists,
                   recordResult, exitStatus, ghostVars, listing, listedOf,
                   compactVars, resolveVars, lookupVars, typeVars>>

NextLedgerIO ==
    \/ LedgerRecordIO
    \/ LedgerList

SpecLedgerIO == InitLedger /\ [][NextLedgerIO]_vars

\* ------------------------------------------------------ the type tables

\* Every variable of the download command and of the ledger but pc.
baseVars == <<calls, argUrl, nestedName, fileVars, callVars, ledgerVars,
              recordResult, exitStatus, ghostVars, listVars>>

\* The values version_info['model']['type'] takes; '' is what .get('type', '')
\* gives when the key is missing.
ProviderTypes ==
    {"LORA", "LoCon", "DoRA", "LoHa", "Checkpoint", "TextualInversion",
     "Hypernetwork", "",
     "lora", "LoRA", "locon", "dora", "checkpoint", "CHECKPOINT",
     "textualinversion", "unknown_type"}

\* str.lower(), on the strings of the model.
Lower(s) ==
    CASE s = "LORA" -> "lora"
      [] s = "LoCon" -> "locon"
      [] s = "DoRA" -> "dora"
      [] s = "LoHa" -> "loha"
      [] s = "Checkpoint" -> "checkpoint"
      [] s = "TextualInversion" -> "textualinversion"
      [] s = "Hypernetwork" -> "hypernetwork"
      [] s = ".CKPT" -> ".ckpt"
      [] s = "LoRA" -> "lora"
      [] s = "Character" -> "character"
      [] s = "STYLE" -> "style"
      [] s = "CHECKPOINT" -> "checkpoint"
      [] OTHER -> s

\* str.upper(), on the strings of the model.
Upper(s) ==
    CASE s = "LoCon" -> "LOCON"
      [] s = "DoRA" -> "DORA"
      [] s \in {"lora", "LoRA"} -> "LORA"
      [] s = "locon" -> "LOCON"
      [] s = "dora" -> "DORA"
      [] s = "checkpoint" -> "CHECKPOINT"
      [] s = "textualinversion" -> "TEXTUALINVERSION"
      [] s = "unknown_type" -> "UNKNOWN_TYPE"
      [] s = "LoHa" -> "LOHA"
      [] s = "Checkpoint" -> "CHECKPOINT"
      [] s = "TextualInversion" -> "TEXTUALINVERSION"
      [] s = "Hypernetwork" -> "HYPERNETWORK"
      [] OTHER -> s

Categories == {"lora", "checkpoint", "embedding"}

\* _detect_model_type_from_api: type_mapping.
type_mapping ==
    [t \in {"LORA", "LOCON", "CHECKPOINT", "TEXTUALINVERSION"} |->
        CASE t \in {"LORA", "LOCON"} -> "lora"
          [] t = "CHECKPOINT" -> "checkpoint"
          [] t = "TEXTUALINVERSION" -> "embedding"]

\* _detect_model_type_from_api, given model_info['model']['type'] ('' when
\* missing): (model_type, api_model_type).
DetectModelTypeFromApi(type) ==
    LET api_type == Upper(type)
    IN  IF api_type = "" THEN <<"unknown", "">>
        ELSE <<IF api_type \in DOMAIN type_mapping
                 THEN type_mapping[api_type] ELSE "unknown",
               api_type>>

\* ModelTypeClassifier.VALID_LORA_TYPES.
VALID_LORA_TYPES_NoDora == {"lora", "locon"}

VALID_LORA_TYPES == {"lora", "locon", "dora"}

\* classify_from_metadata, given version_info['model']['type']: the category,
\* or None (with a reason, not modelled).
ClassifyFromMetadata(type) ==
    LET model_type == Lower(type)
    IN  IF model_type = "" THEN None
        ELSE IF model_type = "checkpoint" THEN Some("checkpoint")
        ELSE IF model_type \in VALID_LORA_TYPES THEN Some("lora")
        ELSE IF model_type = "textualinversion" THEN Some("embedding")
        ELSE None

\* download_model: type_mapping of the check of a type given with -t.
manual_type_mapping ==
    [c \in Categories |->
        CASE c = "lora" -> {"lora", "locon", "loha"}
          [] c = "checkpoint" -> {"checkpoint"}
          [] c = "embedding" -> {"textualinversion"}]

\* download_model: the type given with -t is accepted for the provider type.
ManualTypeAccepted(model_type, type) ==
    LET actual_type == Lower(type)
        valid_types == IF model_type \in DOMAIN manual_type_mapping
                         THEN manual_type_mapping[model_type] ELSE {}
    IN  actual_type \in valid_types

\* classify_from_metadata: the reason it returns with the category.  The
\* texts stand for the Japanese ones of the source: no type information; found
\* from the API (of the LoRA family); type not supported.
ClassifyReason(type) ==
    LET model_type == Lower(type)
    IN  IF model_type = "" THEN "no model type information"
        ELSE IF model_type = "checkpoint" THEN "from API: " \o model_type
        ELSE IF model_type \in VALID_LORA_TYPES
          THEN "from API: " \o model_type \o " (LoRA family)"
        ELSE IF model_type = "textualinversion"
          THEN "from API: " \o model_type
        ELSE "unsupported model type: " \o model_type

ApplyScannerMapping ==
    /\ pc = "types"
    /\ scannerSays = ""
    /\ scannerSays' = DetectModelTypeFromApi(provType)[1]
    /\ UNCHANGED <<toolVars, pc, baseVars, compactVars, lineOpen, resolveVars,
                   lookupVars, provType, manualType, classifierSays,
                   manualSays>>

ApplyClassifier ==
    /\ pc = "types"
    /\ classifierSays = ""
    /\ classifierSays' = LET c == ClassifyFromMetadata(provType)
                         IN  IF c = None THEN "None" ELSE c[1]
    /\ classifierReason' = ClassifyReason(provType)
    /\ UNCHANGED <<urlVars, subcategoryVars, dirVars, redownloadVars,
                   importVars, configVars, pc,
                   baseVars, compactVars, lineOpen, resolveVars,
                   lookupVars, provType, manualType, scannerSays,
                   manualSays>>

ApplyManualCheck ==
    /\ pc = "types"
    /\ manualSays = ""
    /\ manualSays' = IF ManualTypeAccepted(manualType, provType)
                       THEN "accepted" ELSE "rejected"
    /\ UNCHANGED <<toolVars, pc, baseVars, compactVars, lineOpen, resolveVars,
                   lookupVars, provType, manualType, scannerSays,
                   classifierSays>>

\* Nothing but the type tables at work.
Quiet ==
    /\ calls = 0 /\ argUrl = ""
    /\ nestedName = FALSE
    /\ partExists = FALSE /\ part = <<>>
    /\ finalExists = FALSE /\ final = <<>>
    /\ dirExists = FALSE
    /\ status = 0 /\ contentLength = 0 /\ stream = <<>>
    /\ resume_offset = 0 /\ total_size = 0 /\ mode = "" /\ downloaded = 0
    /\ requests = 0 /\ result = <<>> /\ dmResult = <<>>
    /\ historyExists = FALSE /\ historyFile = <<>>
    /\ recordResult = "" /\ exitStatus = -1
    /\ outcome = "none" /\ interruptedAt = "" /\ respKind = ""
    /\ partAtCall = <<>> /\ finalAtCall = <<>> /\ dirAtCall = FALSE
    /\ written = <<>> /\ historyAtStart = <<>> /\ renames = 0
    /\ prevOutcome = "none" /\ onlyRange = TRUE /\ ledgerWrite = "none"
    /\ passed = <<>> /\ listing = <<>> /\ listedOf = <<>>
    /\ CompactIdle /\ lineOpen = FALSE

\* One provider type and one category given with -t.
InitTypes ==
    /\ pc = "types"
    /\ Quiet /\ ResolveIdle /\ LookupIdle /\ ToolsIdle
    /\ provType \in ProviderTypes
    /\ manualType \in Categories
    /\ scannerSays = "" /\ classifierSays = "" /\ manualSays = ""

NextTypes ==
    \/ ApplyScannerMapping
    \/ ApplyClassifier
    \/ ApplyManualCheck

SpecTypes == InitTypes /\ [][NextTypes]_vars

\* ------------------------------------------------------ the metadata scanner

\* _search_civitai_api: max_retries, base_delay; the wait after 429 when the
\* answer has no Retry-After header, and the longest wait after 429.
max_retries == 3

base_delay == 1

DefaultRetryAfter == 60

MaxRetryAfter == 300

supported_extensions == {".safetensors", ".ckpt", ".pt", ".pth", ".bin"}

\* model_type_keywords, in the order of the dictionary.
model_type_keywords ==
    << <<"lora", {"lora", "locon", "loha"}>>,
       <<"checkpoint", {"checkpoint", "model"}>>,
       <<"embedding", {"embedding", "textualinversion", "ti"}>> >>

\* The files scan_model_file is given.  dirs: the directories of the lower
\* case path; words: the keywords of the scanner that occur in the lower case
\* file name.
ScanFile(path, dirs, name, ext, words, exists, readable) ==
    [path |-> path, dirs |-> dirs, name |-> name, ext |-> ext,
     words |-> words, exists |-> exists, readable |-> readable,
     size |-> 3, hash |-> "sha256 of " \o name]

ScanFiles ==
    {ScanFile("/models/loras/a.safetensors", {"models", "loras"},
              "a.safetensors", ".safetensors", {"none"}, TRUE, TRUE),
     ScanFile("/downloads/sdxl_model.CKPT", {"downloads"},
              "sdxl_model.CKPT", ".CKPT", {"sdxl", "model"}, TRUE, TRUE),
     ScanFile("/downloads/ti_lora_sd15.pt", {"downloads"},
              "ti_lora_sd15.pt", ".pt", {"ti", "lora", "sd1", "sd15"},
              TRUE, TRUE),
     ScanFile("/models/embeddings/e.bin", {"models", "embeddings"},
              "e.bin", ".bin", {"none"}, TRUE, FALSE),
     ScanFile("/downloads/readme.txt", {"downloads"},
              "readme.txt", ".txt", {"none"}, TRUE, TRUE),
     ScanFile("/downloads/gone.pt", {"downloads"},
              "gone.pt", ".pt", {"none"}, FALSE, FALSE)}

\* _detect_model_type: the directory first, then the first category of
\* model_type_keywords one of whose keywords is in the name, then checkpoint.
DetectModelType(file) ==
    IF "loras" \in file.dirs THEN "lora"
    ELSE IF "checkpoints" \in file.dirs THEN "checkpoint"
    ELSE IF "embeddings" \in file.dirs THEN "embedding"
    ELSE LET hits == {k \in 1..Len(model_type_keywords) :
                         model_type_keywords[k][2] \cap file.words # {}}
         IN  IF hits = {} THEN "checkpoint"
             ELSE model_type_keywords[
                      CHOOSE k \in hits : \A h \in hits : k <= h][1]

\* _detect_base_model.
DetectBaseModel(file) ==
    IF "sdxl" \in file.words THEN "SDXL"
    ELSE IF "sd3" \in file.words THEN "SD3"
    ELSE IF "sd2" \in file.words THEN "SD2.1"
    ELSE IF "sd1" \in file.words \/ "sd15" \in file.words THEN "SD1.5"
    ELSE "Unknown"

\* _calculate_sha256: '' when the file cannot be read.
CalculateSha256(file) == IF file.readable THEN file.hash ELSE ""

\* scan_model_file: the ModelMetadata object made from the file alone.
BasicMetadataNoHash(file) ==
    [file_name |-> file.name, file_path |-> file.path,
     file_size |-> file.size, sha256 |-> "",
     model_type |-> DetectModelType(file),
     base_model |-> DetectBaseModel(file),
     civitai_url |-> None, download_urls |-> {}, model_id |-> None,
     version_id |-> None, model_name |-> None, from_civitai |-> FALSE,
     api_model_type |-> None]

BasicMetadata(file) ==
    [file_name |-> file.name, file_path |-> file.path,
     file_size |-> file.size, sha256 |-> CalculateSha256(file),
     model_type |-> DetectModelType(file),
     base_model |-> DetectBaseModel(file),
     civitai_url |-> None, download_urls |-> {}, model_id |-> None,
     version_id |-> None, model_name |-> None, from_civitai |-> FALSE,
     api_model_type |-> None]

\* The JSON bodies of the providers.  model: the 'model' key is absent, null
\* or an object; type: model.type; parent: description, tags and creator of
\* the parent model were merged in; fileUrl: downloadUrl of the primary file
\* of type Model; downloadUrl: a downloadUrl at the top level.
EmptyBody ==
    [empty |-> TRUE, modelId |-> None, id |-> None, name |-> None,
     model |-> "absent", type |-> None, parent |-> FALSE, baseModel |-> None,
     fileUrl |-> None, downloadUrl |-> None]

VersionBody(modelId, type) ==
    [empty |-> FALSE, modelId |-> modelId, id |-> Some(2),
     name |-> Some("v1.0"),
     model |-> IF type = None THEN "absent" ELSE "object", type |-> type,
     parent |-> FALSE, baseModel |-> Some("Pony"),
     fileUrl |-> Some("https://civitai.com/api/download/models/2"),
     downloadUrl |-> None]

ArchiveBody(model, type) ==
    [empty |-> FALSE, modelId |-> Some(1), id |-> Some(2),
     name |-> Some("v1.0"), model |-> model, type |-> type,
     parent |-> FALSE, baseModel |-> None, fileUrl |-> None,
     downloadUrl |-> Some("https://civarchive.com/download/2")]

PrimaryBodies ==
    {EmptyBody} \cup
    {VersionBody(m, t) : m \in {None, Some(1)},
                         t \in {None, Some("LORA"), Some("DoRA")}}

FallbackBodies ==
    {EmptyBody, ArchiveBody("null", None)} \cup
    {ArchiveBody("object", t) :
        t \in {Some("LoCon"), Some("TextualInversion"), Some("Hypernetwork")}}

\* Truth value of a lookup result: None and {} are false.
NonEmpty(opt) == opt # None /\ ~opt[1].empty

\* The Retry-After headers of a 429 answer: none, seconds below the cap,
\* seconds above it, and a date.
RetryAfterHeaders ==
    {None, Some(Str(DefaultRetryAfter \div 2)),
     Some(Str(MaxRetryAfter + DefaultRetryAfter)),
     Some("Wed, 21 Oct 2015 07:28:00 GMT")}

\* The integers a Retry-After header of the model can stand for.
HeaderInts == 0..(MaxRetryAfter + DefaultRetryAfter)

\* int(s) succeeds.
IsDecimal(s) == \E n \in HeaderInts : Str(n) = s

\* int(s) of a decimal string.
HeaderInt(s) == CHOOSE n \in HeaderInts : Str(n) = s

\* int(response.headers.get('Retry-After', 60)).
RetryAfter(header) ==
    IF header = None THEN DefaultRetryAfter ELSE HeaderInt(header[1])

\* The attempt ends in 'except Exception': a network exception (status 0),
\* or ValueError from int() of a Retry-After header that is no number.
AttemptRaises(ans) ==
    \/ ans.status = 0
    \/ ans.status = 429 /\ ans.header # None /\ ~IsDecimal(ans.header[1])

\* _search_civitai_api: the wait after a 429 answer.
RateLimitDelayUncapped(header) == RetryAfter(header)

RateLimitDelay(header) == Min(RetryAfter(header), MaxRetryAfter)

\* random.uniform(0, 1), at its ends.
JitterValues == {0, 1}

\* _search_civitai_api: base_delay * (2 ** attempt) + random.uniform(0, 1).
Backoff(n, jitter) == base_delay * (2 ^ n) + jitter

\* The answers of the by-hash endpoint; status 0 is a network exception.
PrimaryAnswers ==
    [status : {0, 401, 404, 500, 502, 503}, header : {None},
     body : {None}]
    \cup [status : {429}, header : RetryAfterHeaders, body : {None}]
    \cup [status : {200}, header : {None},
          body : {Some(b) : b \in PrimaryBodies}]

\* The answers to the request for the parent model.
ParentStatuses == {0, 200, 404, 500}

\* The answers of the archive.
FallbackAnswers ==
    [status : {0, 404, 500}, body : {None}]
    \cup [status : {200}, body : {Some(b) : b \in FallbackBodies}]

\* One request: whom it went to, in which attempt, how it was answered, and
\* the wait (asyncio.sleep) that followed.
Event(to, n, st, header, body, wait) ==
    [to |-> to, attempt |-> n, status |-> st, header |-> header,
     body |-> body, wait |-> wait]

\* The parent model's description, tags and creator, merged in.
MergeParent(v) == [v EXCEPT !.model = "object", !.parent = TRUE]

\* _search_civarchive_api: what it returns for an answer.
ArchiveResultNone(st, body) == None

ArchiveResult(st, body) == IF st = 200 THEN body ELSE None

\* _extract_download_urls.
ExtractDownloadUrls(info) ==
    LET fromFiles == IF info.fileUrl # None THEN {info.fileUrl[1]} ELSE {}
    IN  IF fromFiles = {} /\ info.downloadUrl # None
          THEN {info.downloadUrl[1]}
          ELSE fromFiles

\* scan_model_file: the category of the provider replaces the heuristic one
\* unless it is 'unknown'.
OverrideTypeAlways(m, detected) ==
    [m EXCEPT !.model_type = detected[1],
              !.api_model_type = Some(detected[2])]

OverrideType(m, detected) ==
    IF detected[1] # "unknown"
      THEN [m EXCEPT !.model_type = detected[1],
                     !.api_model_type = Some(detected[2])]
      ELSE m

\* scan_model_file: the lookup's answer is written into the metadata.  With
\* 'model': null the read of the description raises AttributeError, which is
\* caught and logged, and what was set before stays.
ApplyInfo(m, info) ==
    LET m1 == [m EXCEPT !.from_civitai = TRUE,
                        !.model_id = info.modelId,
                        !.model_name = info.name]
        m2 == [m1 EXCEPT !.version_id = info.id]
        m3 == OverrideType(m2, DetectModelTypeFromApi(
                                  IF info.type = None THEN ""
                                  ELSE info.type[1]))
        m4 == IF info.baseModel # None
                THEN [m3 EXCEPT !.base_model = info.baseModel[1]] ELSE m3
        m5 == IF Truthy(m4.model_id) /\ Truthy(m4.version_id)
                THEN [m4 EXCEPT !.civitai_url =
                         Some("https://civitai.com/models/"
                              \o Str(m4.model_id[1]) \o "?modelVersionId="
                              \o Str(m4.version_id[1]))]
                ELSE m4
    IN  IF info.model = "null" THEN m1
        ELSE [m5 EXCEPT !.download_urls = ExtractDownloadUrls(info)]

\* scan_model_file, up to the lookup: None for a missing file and for an
\* extension that is not supported; otherwise the metadata of the file alone,
\* returned as it is when there is no hash or no session.  os.path.getsize,
\* called outside every try, raises OSError when the file has gone since
\* os.path.exists saw it.
ScanStart ==
    /\ pc = "resolve"
    /\ attempt' = 0
    /\ \E getsize \in {"ok", "OSError"} :
         IF ~scFile.exists
           THEN /\ pc' = "sc_done"
                /\ scReturned' = "None"
                /\ UNCHANGED metadata
         ELSE IF getsize = "OSError"
           THEN /\ pc' = "sc_done"
                /\ scReturned' = "OSError"
                /\ UNCHANGED metadata
         ELSE IF Lower(scFile.ext) \notin supported_extensions
           THEN /\ pc' = "sc_done"
                /\ scReturned' = "None"
                /\ UNCHANGED metadata
         ELSE /\ metadata' = Some(BasicMetadata(scFile))
              /\ IF CalculateSha256(scFile) # "" /\ session
                   THEN pc' = "sc_primary" /\ UNCHANGED scReturned
                   ELSE pc' = "sc_done" /\ scReturned' = "metadata"
    /\ UNCHANGED <<toolVars,
                   baseVars, compactVars, lineOpen, lookupVars, typeVars,
                   scFile, session, version_info, trace, primaryReturn,
                   model_info>>

\* _search_civitai_api returns r to _search_model_by_hash, which returns it
\* to scan_model_file when it is true and goes on to the archive otherwise.
PrimaryReturns(r) ==
    /\ primaryReturn' = <<r>>
    /\ IF NonEmpty(r)
         THEN model_info' = r /\ pc' = "sc_apply"
         ELSE pc' = "sc_fallback" /\ UNCHANGED model_info
    /\ UNCHANGED attempt

\* _search_civitai_api: continue, after the wait.
PrimaryRetries ==
    /\ attempt' = attempt + 1
    /\ pc' = "sc_primary"
    /\ UNCHANGED <<primaryReturn, model_info>>

\* _search_civitai_api: one request to the by-hash endpoint and what follows
\* from its answer.
SearchCivitaiApi ==
    /\ pc = "sc_primary"
    /\ \E ans \in PrimaryAnswers, jitter \in JitterValues :
         LET more == attempt < max_retries - 1
             Ev(wait) == Event("primary", attempt, ans.status, ans.header,
                               ans.body, wait)
         IN  CASE ans.status = 200 ->
                    /\ trace' = Append(trace, Ev(None))
                    /\ version_info' = ans.body
                    /\ IF Truthy(ans.body[1].modelId)
                         THEN /\ pc' = "sc_nested"
                              /\ UNCHANGED <<attempt, primaryReturn,
                                             model_info>>
                         ELSE PrimaryReturns(ans.body)
               [] ans.status \in {401, 404} ->
                    /\ trace' = Append(trace, Ev(None))
                    /\ PrimaryReturns(None)
                    /\ UNCHANGED version_info
               [] ans.status = 429 /\ ~AttemptRaises(ans) ->
                    /\ IF more
                         THEN /\ trace' = Append(trace,
                                    Ev(Some(RateLimitDelay(ans.header))))
                              /\ PrimaryRetries
                         ELSE /\ trace' = Append(trace, Ev(None))
                              /\ PrimaryReturns(None)
                    /\ UNCHANGED version_info
               [] ans.status = 500 \/ AttemptRaises(ans) ->
                    /\ IF more
                         THEN /\ trace' = Append(trace,
                                    Ev(Some(Backoff(attempt, jitter))))
                              /\ PrimaryRetries
                         ELSE /\ trace' = Append(trace, Ev(None))
                              /\ PrimaryReturns(None)
                    /\ UNCHANGED version_info
               [] OTHER ->
                    /\ trace' = Append(trace, Ev(None))
                    /\ PrimaryReturns(None)
                    /\ UNCHANGED version_info
    /\ UNCHANGED <<toolVars,
                   baseVars, compactVars, lineOpen, lookupVars, typeVars,
                   scFile, session, metadata, scReturned>>

\* _search_civitai_api: the request for the parent model.  Its exception is
\* caught by the handler of the attempt, like one of the by-hash request.
SearchCivitaiApiParent ==
    /\ pc = "sc_nested"
    /\ \E st \in ParentStatuses, jitter \in JitterValues :
         LET more == attempt < max_retries - 1
             Ev(wait) == Event("parent", attempt, st, None, None, wait)
         IN  IF st = 200
               THEN /\ trace' = Append(trace, Ev(None))
                    /\ PrimaryReturns(Some(MergeParent(version_info[1])))
             ELSE IF st = 0
               THEN IF more
                      THEN /\ trace' = Append(trace,
                                 Ev(Some(Backoff(attempt, jitter))))
                           /\ PrimaryRetries
                      ELSE /\ trace' = Append(trace, Ev(None))
                           /\ PrimaryReturns(None)
             ELSE /\ trace' = Append(trace, Ev(None))
                  /\ PrimaryReturns(version_info)
    /\ UNCHANGED <<toolVars,
                   baseVars, compactVars, lineOpen, lookupVars, typeVars,
                   scFile, session, version_info, metadata, scReturned>>

\* _search_civarchive_api, and the end of _search_model_by_hash: a true
\* result goes to scan_model_file; otherwise the search has failed and
\* scan_model_file returns the metadata of the file alone.
SearchCivarchiveApi ==
    /\ pc = "sc_fallback"
    /\ \E ans \in FallbackAnswers :
         LET r == ArchiveResult(ans.status, ans.body)
         IN  /\ trace' = Append(trace, Event("fallback", 0, ans.status, None,
                                             ans.body, None))
             /\ IF NonEmpty(r)
                  THEN /\ model_info' = r
                       /\ pc' = "sc_apply"
                       /\ UNCHANGED scReturned
                  ELSE /\ model_info' = None
                       /\ pc' = "sc_done"
                       /\ scReturned' = "metadata"
    /\ UNCHANGED <<toolVars,
                   baseVars, compactVars, lineOpen, lookupVars, typeVars,
                   scFile, session, attempt, version_info, primaryReturn,
                   metadata>>

\* scan_model_file, after a lookup that found the model.
ApplyModelInfo ==
    /\ pc = "sc_apply"
    /\ metadata' = Some(ApplyInfo(metadata[1], model_info[1]))
    /\ scReturned' = "metadata"
    /\ pc' = "sc_done"
    /\ UNCHANGED <<toolVars,
                   baseVars, compactVars, lineOpen, lookupVars, typeVars,
                   scFile, session, attempt, version_info, trace,
                   primaryReturn, model_info>>

\* ------------------------------------------------- the downloader's lookup

\* get_model_version_info(model_id, version_id): which request comes first;
\* None when neither id is given.
GetModelVersionInfo ==
    /\ pc = "resolve"
    /\ \E model_id \in OptIds, version_id \in OptIds :
         /\ gvArgs' = <<model_id, version_id>>
         /\ IF Truthy(version_id)
              THEN pc' = "gv_version" /\ UNCHANGED gvResult
            ELSE IF Truthy(model_id)
              THEN pc' = "gv_model" /\ UNCHANGED gvResult
            ELSE pc' = "gv_done" /\ gvResult' = <<None>>
    /\ UNCHANGED <<toolVars,
                   baseVars, compactVars, lineOpen, resolveVars, typeVars,
                   gvVersion, gvTrace>>

\* get_model_version_info: the request for the model, whose first version is
\* then looked up by a call of get_model_version_info(version_id=...).
GetModelVersionInfoModel ==
    /\ pc = "gv_model"
    /\ \E st \in ParentStatuses, versions \in BOOLEAN :
         /\ gvTrace' = Append(gvTrace,
                              Event("model", 0, st, None, None, None))
         /\ IF st = 200 /\ versions
              THEN pc' = "gv_version" /\ UNCHANGED gvResult
              ELSE pc' = "gv_done" /\ gvResult' = <<None>>
    /\ UNCHANGED <<toolVars,
                   baseVars, compactVars, lineOpen, resolveVars, typeVars,
                   gvArgs, gvVersion>>

\* get_model_version_info: the request for the version.
GetModelVersionInfoVersion ==
    /\ pc = "gv_version"
    /\ \E ans \in PrimaryAnswers :
         /\ gvTrace' = Append(gvTrace, Event("version", 0, ans.status, None,
                                             ans.body, None))
         /\ IF ans.status = 200
              THEN /\ gvVersion' = ans.body
                   /\ IF Truthy(ans.body[1].modelId)
                        THEN pc' = "gv_parent" /\ UNCHANGED gvResult
                        ELSE pc' = "gv_done" /\ gvResult' = <<ans.body>>
              ELSE /\ pc' = "gv_done"
                   /\ gvResult' = <<None>>
                   /\ UNCHANGED gvVersion
    /\ UNCHANGED <<toolVars,
                   baseVars, compactVars, lineOpen, resolveVars, typeVars,
                   gvArgs>>

\* get_model_version_info: the request for the parent model.  Its exception
\* leaves the function through 'except Exception', which returns None.
GetModelVersionInfoParent ==
    /\ pc = "gv_parent"
    /\ \E st \in ParentStatuses :
         /\ gvTrace' = Append(gvTrace,
                              Event("parent", 0, st, None, None, None))
         /\ gvResult' = IF st = 200 THEN <<Some(MergeParent(gvVersion[1]))>>
                        ELSE IF st = 0 THEN <<None>>
                        ELSE <<gvVersion>>
         /\ pc' = "gv_done"
    /\ UNCHANGED <<toolVars,
                   baseVars, compactVars, lineOpen, resolveVars, typeVars,
                   gvArgs, gvVersion>>

\* A scanner, with or without a session, given one file; a downloader.
InitResolve ==
    /\ pc = "resolve"
    /\ Quiet /\ LookupIdle /\ TypesIdle /\ ToolsIdle
    /\ scFile \in ScanFiles
    /\ session \in BOOLEAN
    /\ attempt = 0
    /\ version_info = <<>> /\ trace = <<>>
    /\ primaryReturn = <<>> /\ model_info = <<>>
    /\ metadata = <<>> /\ scReturned = "pending"

NextResolve ==
    \/ ScanStart
    \/ SearchCivitaiApi
    \/ SearchCivitaiApiParent
    \/ SearchCivarchiveApi
    \/ ApplyModelInfo
    \/ GetModelVersionInfo
    \/ GetModelVersionInfoModel
    \/ GetModelVersionInfoVersion
    \/ GetModelVersionInfoParent

SpecResolve == InitResolve /\ [][NextResolve]_vars

\* ------------------------------------------------------------ the URL parser

\* The state of the download command, the ledger, the scanner and the type
\* tables.
coreVars == <<baseVars, compactVars, lineOpen, resolveVars, lookupVars,
              typeVars>>

\* What parse_url leaves alone.
exceptUrl == <<coreVars, classifierReason, subcategoryVars, dirVars,
               redownloadVars, importVars,
               configVars>>

Digits == {"1", "2"}

\* What the path of a URL is made of; "models" stands for the six letters of
\* the word, "a" for any other character.
PathSymbols == {"/", "models", "a"} \cup Digits

\* The sequences over S of length at most n.
SeqsUpTo(S, n) == UNION {[1..k -> S] : k \in 0..n}

Paths == SeqsUpTo(PathSymbols, MaxPathLen)

\* The query strings of the model, as the name=value fields between '&'.
Queries ==
    {<<>>,
     << <<"modelVersionId", <<"1", "2">> >> >>,
     << <<"modelVersionId", <<"a">> >> >>,
     << <<"modelVersionId", <<"1", "a">> >> >>,
     << <<"modelVersionId", <<>> >> >>,
     << <<"page", <<"1">> >> >>,
     << <<"page", <<"2">> >>, <<"modelVersionId", <<"2", "1">> >> >>,
     << <<"modelVersionId", <<"1">> >>, <<"modelVersionId", <<"2">> >> >>}

\* The network locations: one urlparse accepts, one it rejects with
\* ValueError (an opening bracket without the closing one).
Hosts == {"civitai.com", "[civitai.com"}

Urls == [host : Hosts, path : Paths, query : Queries]

\* int(s) of a sequence of decimal digits.
RECURSIVE DigitsToInt(_)
DigitsToInt(s) ==
    IF s = <<>> THEN 0
    ELSE 10 * DigitsToInt(SubSeq(s, 1, Len(s) - 1))
         + (IF s[Len(s)] = "1" THEN 1 ELSE 2)

\* int(s) does not raise ValueError.
IsNumber(s) == s # <<>> /\ \A k \in 1..Len(s) : s[k] \in Digits

\* re.search(r'/models/(\d+)', path): the positions where the pattern matches.
PathMatches(path) ==
    {i \in 1..Len(path) :
        /\ i + 3 <= Len(path)
        /\ path[i] = "/" /\ path[i + 1] = "models" /\ path[i + 2] = "/"
        /\ path[i + 3] \in Digits}

\* The group (\d+) of the match at position i: the longest run of digits.
PathGroup(path, i) ==
    LET ends == {j \in (i + 3)..Len(path) :
                    \A k \in (i + 3)..j : path[k] \in Digits}
        last == CHOOSE j \in ends : \A e \in ends : e <= j
    IN  SubSeq(path, i + 3, last)

\* parse_url: model_id.
PathModelId(path) ==
    LET found == PathMatches(path)
    IN  IF found = {} THEN None
        ELSE Some(DigitsToInt(PathGroup(path,
                      CHOOSE i \in found : \A f \in found : i <= f)))

\* parse_qs(query)[name]: the values of the fields with this name that are
\* not blank, in their order.
RECURSIVE ParseQs(_, _)
ParseQs(query, name) ==
    IF query = <<>> THEN <<>>
    ELSE LET rest == ParseQs(Tail(query), name)
         IN  IF Head(query)[1] = name /\ Head(query)[2] # <<>>
               THEN <<Head(query)[2]>> \o rest
               ELSE rest

\* parse_url: model_version_id.
QueryVersionId(query) ==
    LET values == ParseQs(query, "modelVersionId")
    IN  IF values = <<>> THEN None
        ELSE IF IsNumber(values[1]) THEN Some(DigitsToInt(values[1]))
        ELSE None

\* CivitaiURLParser.parse_url: (model_id, model_version_id), or ValueError
\* when urlparse raised.
ParseUrlOf(u) ==
    IF u.host # "civitai.com" THEN "ValueError"
    ELSE <<PathModelId(u.path), QueryVersionId(u.query)>>

ParseGivenUrl ==
    /\ pc = "parse_url"
    /\ parsed = "pending"
    /\ parsed' = ParseUrlOf(givenUrl)
    /\ UNCHANGED <<pc, givenUrl, exceptUrl>>

InitUrl ==
    /\ pc = "parse_url"
    /\ Quiet /\ ResolveIdle /\ LookupIdle /\ TypesIdle
    /\ classifierReason = "" /\ SubcategoryIdle /\ DirIdle
    /\ RedownloadIdle /\ ImportIdle /\ ConfigIdle
    /\ givenUrl \in Urls
    /\ parsed = "pending"

NextUrl == ParseGivenUrl

SpecUrl == InitUrl /\ [][NextUrl]_vars

\* ------------------------------------------------- the LoRA subcategory

\* What _detect_lora_subcategory leaves alone.
exceptSubcategory == <<coreVars, urlVars, classifierReason, dirVars,
                       redownloadVars, importVars,
               configVars>>

\* The tags of the provider's models.
Tags == {"style", "STYLE", "Character", "concept", "poses", "anime"}

TagLists == SeqsUpTo(Tags, MaxTags)

\* _detect_lora_subcategory: subcategories, in the order of the list.
subcategories ==
    <<"style", "poses", "concept", "character", "clothing", "background",
      "objects">>

\* _detect_lora_subcategory: None without tags, the first entry of
\* subcategories that is among the lower-case tags, 'other' without one.
DetectLoraSubcategory(tagList) ==
    IF tagList = <<>> THEN None
    ELSE LET tags_lower == {Lower(tagList[k]) : k \in 1..Len(tagList)}
             hits == {c \in 1..Len(subcategories) :
                         subcategories[c] \in tags_lower}
         IN  IF hits = {} THEN Some("other")
             ELSE Some(subcategories[CHOOSE c \in hits :
                                        \A h \in hits : c <= h])

DetectSubcategory ==
    /\ pc = "subcategory"
    /\ lora_subcategory = "pending"
    /\ lora_subcategory' = DetectLoraSubcategory(tags)
    /\ UNCHANGED <<pc, tags, exceptSubcategory>>

InitSubcategory ==
    /\ pc = "subcategory"
    /\ Quiet /\ ResolveIdle /\ LookupIdle /\ TypesIdle
    /\ UrlIdle /\ classifierReason = "" /\ DirIdle /\ RedownloadIdle
    /\ ImportIdle /\ ConfigIdle
    /\ tags \in TagLists
    /\ lora_subcategory = "pending"

NextSubcategory == DetectSubcategory

SpecSubcategory == InitSubcategory /\ [][NextSubcategory]_vars

\* ------------------------------------------------------ the directory scan

\* What scan_directory leaves alone, the scanner's session among it.
exceptDir == <<coreVars, urlVars, classifierReason, subcategoryVars,
               redownloadVars, importVars,
               configVars>>

\* The files below the directory: a model file, one whose size cannot be
\* read when its turn comes, a text file, and one that has gone when its turn
\* comes; each at the top of the directory or in a subdirectory.
DirEntry(name, getsize, sub) ==
    [file |-> CHOOSE f \in ScanFiles : f.name = name,
     getsize |-> getsize, sub |-> sub]

DirEntries ==
    {DirEntry(e[1], e[2], sub) :
        e \in {<<"a.safetensors", "ok">>, <<"ti_lora_sd15.pt", "OSError">>,
               <<"readme.txt", "ok">>, <<"gone.pt", "ok">>},
        sub \in BOOLEAN}

DirListings == {None} \cup {Some(l) : l \in SeqsUpTo(DirEntries, MaxDirFiles)}

\* What _search_model_by_hash gives scan_model_file in the directory scan.
DirLookups == {None, Some(VersionBody(Some(1), Some("LORA")))}

\* scan_model_file for one entry: it returns None, raises OSError, or
\* returns the metadata.
ScanModelFile(e, hasSession, info) ==
    IF ~e.file.exists THEN <<"None">>
    ELSE IF e.getsize = "OSError" THEN <<"OSError">>
    ELSE IF Lower(e.file.ext) \notin supported_extensions THEN <<"None">>
    ELSE IF CalculateSha256(e.file) # "" /\ hasSession /\ info # None
      THEN <<"metadata", ApplyInfo(BasicMetadata(e.file), info[1])>>
    ELSE <<"metadata", BasicMetadata(e.file)>>

\* scan_directory lists the entry: os.walk visits subdirectories,
\* os.listdir does not.
Listed(e, rec) == rec \/ ~e.sub

\* scan_directory returns.
DirReturns ==
    /\ dirReturned' = TRUE
    /\ pc' = "scan_dir_done"

\* scan_directory: [] for a missing directory; otherwise one turn of the
\* loop, or the return after the last one.  An exception of scan_model_file
\* leaves the loop for the 'except Exception' around it.
ScanDirectory ==
    /\ pc = "scan_dir"
    /\ IF dirListing = None \/ dirPos = Len(dirListing[1])
         THEN /\ DirReturns
              /\ UNCHANGED <<dirPos, metadata_list, scannedAt>>
         ELSE LET e == dirListing[1][dirPos + 1]
              IN  /\ dirPos' = dirPos + 1
                  /\ IF Listed(e, recursive)
                        /\ Lower(e.file.ext) \in supported_extensions
                       THEN \E info \in DirLookups :
                              LET m == ScanModelFile(e, session, info)
                              IN  CASE m[1] = "OSError" ->
                                         /\ DirReturns
                                         /\ UNCHANGED <<metadata_list,
                                                        scannedAt>>
                                    [] m[1] = "None" ->
                                         UNCHANGED <<pc, dirReturned,
                                                     metadata_list, scannedAt>>
                                    [] OTHER ->
                                         /\ metadata_list' =
                                               Append(metadata_list, m[2])
                                         /\ scannedAt' =
                                               Append(scannedAt, dirPos + 1)
                                         /\ UNCHANGED <<pc, dirReturned>>
                       ELSE UNCHANGED <<pc, dirReturned, metadata_list,
                                        scannedAt>>
    /\ UNCHANGED <<dirListing, recursive, exceptDir>>

InitScanDir ==
    /\ pc = "scan_dir"
    /\ Quiet /\ LookupIdle /\ TypesIdle
    /\ UrlIdle /\ classifierReason = "" /\ SubcategoryIdle
    /\ RedownloadIdle /\ ImportIdle /\ ConfigIdle
    /\ scFile = <<>> /\ session \in BOOLEAN /\ attempt = 0
    /\ version_info = <<>> /\ trace = <<>>
    /\ primaryReturn = <<>> /\ model_info = <<>>
    /\ metadata = <<>> /\ scReturned = "pending"
    /\ dirListing \in DirListings
    /\ recursive \in BOOLEAN
    /\ dirPos = 0
    /\ metadata_list = <<>> /\ scannedAt = <<>> /\ dirReturned = FALSE

NextScanDir == ScanDirectory

SpecScanDir == InitScanDir /\ [][NextScanDir]_vars

\* ------------------------------------------------ the redownload-all command

\* What the redownload-all command leaves alone: it reads the ledger and
\* writes nothing to it (only main's single download calls record_download).
exceptRedownload ==
    <<calls, argUrl, nestedName, fileVars, callVars, ledgerVars, recordResult,
      ghostVars, listVars, compactVars, lineOpen, resolveVars, lookupVars,
      typeVars, urlVars, classifierReason, subcategoryVars, dirVars,
      importVars, configVars>>

\* The records of the ledgers the command is run on: downloads by a URL
\* without and with a version (the ids are those the provider resolved), and
\* imported records without ids, one of them with a URL urlparse rejects.
BatchRecords ==
    {[url |-> "https://civitai.com/models/1",
      model_id |-> Some(1), version_id |-> Some(1)],
     [url |-> "https://civitai.com/models/1?modelVersionId=1",
      model_id |-> Some(1), version_id |-> Some(1)],
     [url |-> "https://civitai.com/models/2?modelVersionId=1",
      model_id |-> Some(2), version_id |-> Some(1)],
     [url |-> "https://example.com/a", model_id |-> None,
      version_id |-> None],
     [url |-> "https://[civitai.com/models/1", model_id |-> None,
      version_id |-> None]}

\* The URL strings of the ledger, as parse_url sees them.
UrlOf(text) ==
    CASE text = "https://civitai.com/models/1" ->
           [host |-> "civitai.com", path |-> <<"/", "models", "/", "1">>,
            query |-> <<>>]
      [] text = "https://civitai.com/models/1?modelVersionId=1" ->
           [host |-> "civitai.com", path |-> <<"/", "models", "/", "1">>,
            query |-> << <<"modelVersionId", <<"1">> >> >>]
      [] text = "https://civitai.com/models/2?modelVersionId=1" ->
           [host |-> "civitai.com", path |-> <<"/", "models", "/", "2">>,
            query |-> << <<"modelVersionId", <<"1">> >> >>]
      [] text = "https://[civitai.com/models/1" ->
           [host |-> "[civitai.com", path |-> <<"/", "models", "/", "1">>,
            query |-> <<>>]
      [] OTHER ->
           [host |-> "civitai.com", path |-> <<"/", "a">>, query |-> <<>>]

\* check_model_downloaded for what parse_url returned: an id that is None is
\* compared as the text 'None', which no id column of a ledger holds.
ModelDuplicate(exists, file, ids) ==
    /\ ids[1] # None /\ ids[2] # None
    /\ CheckModelDownloaded(exists, file, ids[1][1], ids[2][1])

\* redownload_all: the entry is passed over as a duplicate; never with
\* --force, and not when parse_url raises ValueError.
SkipsEntry(isForce, exists, file, download) ==
    /\ ~isForce
    /\ LET ids == ParseUrlOf(UrlOf(download["url"]))
       IN  /\ ids # "ValueError"
           /\ ModelDuplicate(exists, file, ids)

\* How download_model ends for one entry: it returns success, it returns a
\* failure (of the lookup or of the transfer), or it raises.
DownloadOutcomes == {"success", "failed", "raised"}

\* redownload_all: error_count after the entry.
ErrorCountOnlyReturned(count, how) ==
    IF how = "failed" THEN count + 1 ELSE count

ErrorCount(count, how) ==
    IF how \in {"failed", "raised"} THEN count + 1 ELSE count

\* main, --redownload-url without an argument: the deduplicated history is
\* read; without entries the command exits with 1; without --force and --yes
\* it asks, and exits with 0 unless the answer is y.
RedownloadAllStart ==
    /\ pc = "redownload"
    /\ \E yes \in BOOLEAN, choice \in {"y", "n"} :
         LET read == GetAllDownloadsUnique(historyExists, historyFile)
         IN  /\ rdDownloads' = read
             /\ IF read = <<>>
                  THEN pc' = "rd_exit" /\ exitStatus' = 1
                ELSE IF ~force /\ ~yes /\ choice # "y"
                  THEN pc' = "rd_exit" /\ exitStatus' = 0
                ELSE pc' = "rd_loop" /\ UNCHANGED exitStatus
    /\ UNCHANGED <<force, rdPos, success_count, error_count, skipped,
                   processed, attempted, exceptRedownload>>

\* redownload_all: one turn of the loop.
RedownloadEntry ==
    /\ pc = "rd_loop"
    /\ rdPos < Len(rdDownloads)
    /\ rdPos' = rdPos + 1
    /\ processed' = Append(processed, rdPos + 1)
    /\ IF SkipsEntry(force, historyExists, historyFile,
                     rdDownloads[rdPos + 1])
         THEN /\ skipped' = skipped + 1
              /\ UNCHANGED <<success_count, error_count, attempted>>
         ELSE \E how \in DownloadOutcomes :
                /\ attempted' = Append(attempted, rdPos + 1)
                /\ success_count' = IF how = "success"
                                      THEN success_count + 1
                                      ELSE success_count
                /\ error_count' = ErrorCount(error_count, how)
                /\ UNCHANGED skipped
    /\ UNCHANGED <<pc, exitStatus, force, rdDownloads, exceptRedownload>>

\* redownload_all returns after the last entry, and main exits with 0.
RedownloadAllEnd ==
    /\ pc = "rd_loop"
    /\ rdPos = Len(rdDownloads)
    /\ pc' = "rd_done"
    /\ exitStatus' = 0
    /\ UNCHANGED <<redownloadVars, exceptRedownload>>

\* A ledger of up to MaxRecords records, and the command with or without
\* --force.
InitRedownload ==
    /\ pc = "redownload"
    /\ calls = 0 /\ argUrl = ""
    /\ nestedName = FALSE
    /\ partExists = FALSE /\ part = <<>>
    /\ finalExists = FALSE /\ final = <<>>
    /\ dirExists = FALSE
    /\ status = 0 /\ contentLength = 0 /\ stream = <<>>
    /\ resume_offset = 0 /\ total_size = 0 /\ mode = "" /\ downloaded = 0
    /\ requests = 0 /\ result = <<>> /\ dmResult = <<>>
    /\ historyExists = TRUE
    /\ \E n \in 0..MaxRecords :
         \E recs \in [1..n -> BatchRecords] : historyFile = LedgerOf(recs)
    /\ recordResult = "" /\ exitStatus = -1
    /\ outcome = "none" /\ interruptedAt = "" /\ respKind = ""
    /\ partAtCall = <<>> /\ finalAtCall = <<>> /\ dirAtCall = FALSE
    /\ written = <<>> /\ historyAtStart = <<>> /\ renames = 0
    /\ prevOutcome = "none" /\ onlyRange = TRUE /\ ledgerWrite = "none"
    /\ passed = <<>> /\ listing = <<>> /\ listedOf = <<>>
    /\ CompactIdle /\ lineOpen = FALSE
    /\ ResolveIdle /\ LookupIdle /\ TypesIdle
    /\ UrlIdle /\ classifierReason = "" /\ SubcategoryIdle /\ DirIdle
    /\ ImportIdle /\ ConfigIdle
    /\ force \in BOOLEAN
    /\ rdDownloads = <<>> /\ rdPos = 0
    /\ success_count = 0 /\ error_count = 0 /\ skipped = 0
    /\ processed = <<>> /\ attempted = <<>>

NextRedownload ==
    \/ RedownloadAllStart
    \/ RedownloadEntry
    \/ RedownloadAllEnd

SpecRedownload == InitRedownload /\ [][NextRedownload]_vars

\* ------------------------------------------------------- the ledger import

\* What convert_to_csv leaves alone.
exceptImport ==
    <<pc, calls, argUrl, nestedName, fileVars, callVars, historyExists,
      recordResult, exitStatus, ghostVars, listVars, compactVars, lineOpen,
      resolveVars, lookupVars, typeVars, urlVars, classifierReason,
      subcategoryVars, dirVars, redownloadVars, configVars>>

\* record_download: the parameters of its signature.
record_download_parameters ==
    {"url", "model_type", "filename", "model_id", "version_id", "file_size"}

\* convert_to_csv: the keywords of its call of record_download.
ConvertKeywords ==
    {"url", "model_type", "filename", "model_id", "version_id", "file_size",
     "api_model_type", "lora_subcategory"}

\* A call with a keyword the function has no parameter for raises TypeError
\* before the function's body runs.
CallRaisesTypeError(keywords, parameters) == ~(keywords \subseteq parameters)

\* The entries of a metadata file: models found remotely and one found only
\* on disk.
ImportEntries ==
    {[civitai_url |-> "https://civitai.com/models/1?modelVersionId=1",
      model_id |-> Some(1), version_id |-> Some(1)],
     [civitai_url |-> "https://civitai.com/models/2?modelVersionId=1",
      model_id |-> Some(2), version_id |-> Some(1)],
     [civitai_url |-> "", model_id |-> None, version_id |-> None]}

\* The ledgers the import appends to: an empty one, and one with a record.
ImportLedgers ==
    {LedgerOf(<<>>),
     LedgerOf(<< [url |-> "https://civitai.com/models/1?modelVersionId=1",
                  model_id |-> Some(1), version_id |-> Some(1)] >>)}

\* _check_duplicate(model_id, version_id).
CheckDuplicate(exists, file, model_id, version_id) ==
    IF ~Truthy(model_id) \/ ~Truthy(version_id) THEN FALSE
    ELSE CheckModelDownloaded(exists, file, model_id[1], version_id[1])

\* convert_to_csv: 0 for an empty list; otherwise one turn of the loop, or
\* the return of added_count after the last one.
ConvertToCsv ==
    /\ pc = "import"
    /\ importReturned = -1
    /\ IF importList = <<>>
         THEN /\ importReturned' = 0
              /\ UNCHANGED <<importPos, added_count, skipped_count,
                             historyFile>>
       ELSE IF importPos = Len(importList)
         THEN /\ importReturned' = added_count
              /\ UNCHANGED <<importPos, added_count, skipped_count,
                             historyFile>>
       ELSE LET m == importList[importPos + 1]
            IN  /\ importPos' = importPos + 1
                /\ UNCHANGED importReturned
                /\ IF CheckDuplicate(historyExists, historyFile, m.model_id,
                                     m.version_id)
                     THEN /\ skipped_count' = skipped_count + 1
                          /\ UNCHANGED <<added_count, historyFile>>
                   ELSE IF CallRaisesTypeError(ConvertKeywords,
                                               record_download_parameters)
                     THEN UNCHANGED <<added_count, skipped_count,
                                      historyFile>>
                   ELSE /\ historyFile' =
                             AppendRow(historyFile,
                                 RowData(Timestamp(importPos + 1),
                                         m.civitai_url, "lora",
                                         "a.safetensors", m.model_id,
                                         m.version_id, None),
                                 TRUE)
                        /\ added_count' = added_count + 1
                        /\ UNCHANGED skipped_count
    /\ UNCHANGED <<importList, exceptImport>>

InitImport ==
    /\ pc = "import"
    /\ calls = 0 /\ argUrl = ""
    /\ nestedName = FALSE
    /\ partExists = FALSE /\ part = <<>>
    /\ finalExists = FALSE /\ final = <<>>
    /\ dirExists = FALSE
    /\ status = 0 /\ contentLength = 0 /\ stream = <<>>
    /\ resume_offset = 0 /\ total_size = 0 /\ mode = "" /\ downloaded = 0
    /\ requests = 0 /\ result = <<>> /\ dmResult = <<>>
    /\ historyExists = TRUE
    /\ historyFile \in ImportLedgers
    /\ historyAtStart = historyFile
    /\ recordResult = "" /\ exitStatus = -1
    /\ outcome = "none" /\ interruptedAt = "" /\ respKind = ""
    /\ partAtCall = <<>> /\ finalAtCall = <<>> /\ dirAtCall = FALSE
    /\ written = <<>> /\ renames = 0
    /\ prevOutcome = "none" /\ onlyRange = TRUE /\ ledgerWrite = "none"
    /\ passed = <<>> /\ listing = <<>> /\ listedOf = <<>>
    /\ CompactIdle /\ lineOpen = FALSE
    /\ ResolveIdle /\ LookupIdle /\ TypesIdle
    /\ UrlIdle /\ classifierReason = "" /\ SubcategoryIdle /\ DirIdle
    /\ RedownloadIdle /\ ConfigIdle
    /\ importList \in SeqsUpTo(ImportEntries, MaxRecords)
    /\ importPos = 0
    /\ added_count = 0 /\ skipped_count = 0 /\ importReturned = -1

NextImport == ConvertToCsv

SpecImport == InitImport /\ [][NextImport]_vars

\* ------------------------------------------------------- the configuration

\* What the configuration manager leaves alone.
exceptConfig ==
    <<coreVars, urlVars, classifierReason, subcategoryVars, dirVars,
      redownloadVars, importVars>>

\* The keys a download_paths table is written with.
PathKeys == {"lora", "checkpoint", "checkpoints", "embedding"}

\* The values of civitai_api_key: absent, the placeholder of the example
\* file, a key.
ApiKeys == {"", "your_civitai_api_key_here", "key"}

\* get_api_key.
GetApiKey(api_key) ==
    IF api_key = "" \/ api_key = "your_civitai_api_key_here"
      THEN "ValueError" ELSE api_key

\* get_download_path(model_type): ValueError for a type the table lacks;
\* otherwise the directory is created (os.makedirs raises when it cannot be)
\* and its path returned.
ConfigGetDownloadPath(paths, bad, model_type) ==
    IF model_type \notin paths THEN "ValueError"
    ELSE IF model_type \in bad THEN "OSError"
    ELSE "path"

\* validate: the model types whose download path it asks for.
ValidatedTypes == {"lora", "checkpoints", "embedding"}

\* validate: True unless one of its calls raises (get_history_file never
\* does).
ValidateOf(api_key, paths, bad) ==
    /\ GetApiKey(api_key) # "ValueError"
    /\ \A model_type \in ValidatedTypes :
          ConfigGetDownloadPath(paths, bad, model_type) = "path"

\* main: config.validate(); the command exits with 1 when it returns False.
Validate ==
    /\ pc = "config"
    /\ validateResult = "pending"
    /\ validateResult' =
         IF ValidateOf(civitai_api_key, download_paths, unwritable)
           THEN "True" ELSE "False"
    /\ UNCHANGED <<pc, civitai_api_key, download_paths, unwritable,
                   pathResult, exceptConfig>>

\* download_model: config.get_download_path(model_type) for the category of
\* the model, in a command whose configuration was validated.
ConfigDownloadPath ==
    /\ pc = "config"
    /\ validateResult = "True"
    /\ \E c \in Categories :
         /\ pathResult[c] = "pending"
         /\ pathResult' =
              [pathResult EXCEPT
                 ![c] = ConfigGetDownloadPath(download_paths, unwritable, c)]
    /\ UNCHANGED <<pc, civitai_api_key, download_paths, unwritable,
                   validateResult, exceptConfig>>

InitConfig ==
    /\ pc = "config"
    /\ Quiet
    /\ ResolveIdle /\ LookupIdle /\ TypesIdle
    /\ UrlIdle /\ classifierReason = "" /\ SubcategoryIdle /\ DirIdle
    /\ RedownloadIdle /\ ImportIdle
    /\ civitai_api_key \in ApiKeys
    /\ download_paths \in SUBSET PathKeys
    /\ unwritable \in SUBSET PathKeys
    /\ validateResult = "pending"
    /\ pathResult = [c \in Categories |-> "pending"]

NextConfig == Validate \/ ConfigDownloadPath

SpecConfig == InitConfig /\ [][NextConfig]_vars

\* ------------------------------------------------------------------ claims

\* What open() leaves in the temporary file of the current call.
PartWhenOpened == Opened(mode, partAtCall[1], partAtCall[2])

\* int(s) of a decimal string, over the integers the model writes.
ParseInt(s) == CHOOSE n \in 0..(MaxId + BodyLen + 1) : Str(n) = s

\* The text of an id column read back as an Optional[int].
FieldToId(s) == IF s = "" THEN None ELSE Some(ParseInt(s))

\* C1: a transfer that found a temporary file of K > 0 bytes and was answered
\* 200 with the full body publishes a final file of content-length bytes that
\* is exactly the body, with no stale byte in front of it.
C1_FreshStartDropsStaleBytes ==
    (/\ outcome = "ok"
     /\ status = 200
     /\ partAtCall[1]
     /\ Len(partAtCall[2]) > 0)
    => (/\ finalExists
        /\ Len(final) = contentLength
        /\ final = Body)

\* C2: a transfer that found a temporary file of K bytes, 0 < K < totalSize,
\* and was answered 206 to 'Range: bytes=K-' appends exactly the totalSize - K
\* remaining bytes in receipt order to the K bytes, computes the total as
\* content-length + K, and publishes a final file of exactly totalSize bytes.
C2_ResumeAppendsTheRest ==
    (/\ outcome = "ok"
     /\ status = 206
     /\ partAtCall[1]
     /\ Len(partAtCall[2]) > 0
     /\ Len(partAtCall[2]) < Len(Body))
    => LET K == Len(partAtCall[2])
       IN  /\ resume_offset = K
           /\ Len(written) = Len(Body) - K
           /\ written = SubSeq(Body, K + 1, Len(Body))
           /\ total_size = contentLength + K
           /\ total_size = Len(Body)
           /\ downloaded = Len(Body)
           /\ finalExists
           /\ final = partAtCall[2] \o written
           /\ Len(final) = Len(Body)

C2_Witness ==
    /\ outcome = "ok"
    /\ status = 206
    /\ partAtCall = <<TRUE, SubSeq(Body, 1, 1)>>
    /\ finalExists
    /\ final = Body

\* C3: after a run was interrupted before the rename, a new run answered by
\* a server that honours byte ranges, and not itself disturbed, returns
\* success with a final file of exactly totalSize bytes.
C3_InterruptedTransferResumes ==
    (/\ prevOutcome = "interrupt"
     /\ onlyRange
     /\ pc = "main_result"
     /\ outcome \in {"status", "ok"})
    => (/\ result[1] = TRUE
        /\ finalExists
        /\ Len(final) = Len(Body))

\* C4: the temporary file and the final file are never both complete.
PartComplete == partExists /\ part = Body

FinalComplete == finalExists /\ final = Body

C4_NeverBothComplete == ~(PartComplete /\ FinalComplete)

\* C5: after a failure in mid-stream, with some chunks written, download_file
\* has returned (False, message), the temporary file exists and holds every
\* byte written before the failure, and the final path is as it was.
C5_MidStreamFailureKeepsPart ==
    (outcome = "streamfail" /\ written # <<>>)
    => (/\ result[1] = FALSE
        /\ dmResult[1] = FALSE
        /\ partExists
        /\ part = PartWhenOpened \o written
        /\ <<finalExists, final>> = finalAtCall)

C5_Witness ==
    /\ outcome = "streamfail"
    /\ pc = "exited"
    /\ Len(written) = 2
    /\ stream # <<>>
    /\ finalAtCall[1]

\* C6: a response status outside {200, 206} ends download_file after its one
\* request with (False, message), and the temporary file, the final file and
\* the destination directory are as they were before the call.
C6_OtherStatusIsTerminal ==
    (/\ status # 0
     /\ status \notin OkStatuses
     /\ pc # "df_status"
     /\ outcome # "interrupt")
    => (/\ outcome = "status"
        /\ requests = 1
        /\ result[1] = FALSE
        /\ <<partExists, part>> = partAtCall
        /\ <<finalExists, final>> = finalAtCall
        /\ dirExists = dirAtCall)

C6_Witness ==
    /\ outcome = "status"
    /\ status = 500
    /\ pc = "exited"
    /\ ~dirExists

\* C7: a run interrupted between two chunk writes leaves the temporary file
\* in place, holding exactly the chunks written so far in receipt order (after
\* what it held when it was opened for appending), and the final path as it was.
C7_CancelKeepsPart ==
    (outcome = "interrupt" /\ interruptedAt = "df_stream")
    => (/\ partExists
        /\ part = PartWhenOpened \o written
        /\ <<finalExists, final>> = finalAtCall
        /\ result = <<>>)

C7_Witness ==
    /\ outcome = "interrupt"
    /\ interruptedAt = "df_stream"
    /\ written # <<>>
    /\ stream # <<>>
    /\ part = written

\* C8: the download command appends a ledger record only after download_file
\* renamed the temporary file to the final path; a run that fails at URL
\* parsing, the metadata lookup, the type check, the file selection or the
\* transfer leaves the ledger as it was.
FailedOutcomes ==
    {"parse", "lookup", "type", "nofile", "path", "status", "streamfail"}

C8_RecordOnlyAfterRename ==
    /\ Len(historyFile) <= renames + 1
    /\ historyFile # historyAtStart
         => (/\ outcome = "ok"
             /\ finalExists
             /\ ~partExists
             /\ historyFile = Append(historyAtStart, DownloadedRow))
    /\ outcome \in FailedOutcomes => historyFile = historyAtStart

C8_Witness ==
    /\ pc = "exited"
    /\ outcome = "ok"
    /\ historyFile = <<CSV_HEADERS, DownloadedRow>>
    /\ finalExists

\* C9: a download whose ledger write failed is reported to the caller (result
\* of record_download, exit status) differently from one whose record was
\* written.
C9_UnrecordedIsDistinguishable ==
    (/\ pc = "exited"
     /\ outcome = "ok"
     /\ ledgerWrite = "failed")
    => <<recordResult, exitStatus>> # ReportedOutcome(TRUE)

\* C10: get_all_downloads(remove_duplicates=False) returns one record for
\* every successful record_download, in the order of the calls, each with the
\* url, model_type, filename, model_id and version_id that were passed in.
C10_RoundTrip ==
    /\ Len(listing) = Len(listedOf)
    /\ \A i \in 1..Len(listing) :
         /\ listing[i]["url"] = listedOf[i].url
         /\ listing[i]["model_type"] = ModelTypeOf(listedOf[i].url)
         /\ listing[i]["filename"] = FilenameOf(listedOf[i].url)
         /\ FieldToId(listing[i]["model_id"]) = listedOf[i].model_id
         /\ FieldToId(listing[i]["version_id"]) = listedOf[i].version_id

C10_Witness ==
    /\ Len(listing) = MaxRecords
    /\ listing[1]["url"] # listing[2]["url"]
    /\ listing[1]["model_id"] = ""
    /\ listing[2]["model_id"] = "1"
    /\ listing[2]["version_id"] = ""

\* The identity of a ledger record under the dedup rule: the pair of provider
\* ids when both are there, the URL otherwise.
Identity(r) ==
    IF r["model_id"] # "" /\ r["version_id"] # ""
      THEN <<"ids", r["model_id"], r["version_id"]>>
      ELSE <<"url", r["url"]>>

\* The positions of the records no earlier record shares the identity of.
FirstOccurrences(rows) ==
    {i \in 1..Len(rows) :
        \A j \in 1..(i - 1) : Identity(rows[j]) # Identity(rows[i])}

RECURSIVE Pick(_, _, _)
Pick(rows, S, i) ==
    IF i > Len(rows) THEN <<>>
    ELSE (IF i \in S THEN <<rows[i]>> ELSE <<>>) \o Pick(rows, S, i + 1)

Entries(listed, id) == {k \in 1..Len(listed) : Identity(listed[k]) = id}

\* C11: get_all_downloads(remove_duplicates=True) lists, in ledger order,
\* exactly the first record of every identity: of two records with the same
\* non-empty (model_id, version_id) one entry is listed, the first written; of
\* two records without ids and with the same URL one entry is listed; two
\* records without ids and with different URLs are both listed.
C11_FirstOccurrenceWins ==
    /\ uniqueListing = Pick(uniqueOf, FirstOccurrences(uniqueOf), 1)
    /\ \A i, j \in 1..Len(uniqueOf) :
         i < j =>
           LET a == uniqueOf[i]
               b == uniqueOf[j]
               first == CHOOSE k \in 1..Len(uniqueOf) :
                          /\ Identity(uniqueOf[k]) = Identity(a)
                          /\ \A m \in 1..(k - 1) :
                               Identity(uniqueOf[m]) # Identity(a)
           IN  /\ Identity(a) = Identity(b)
                 => /\ Cardinality(Entries(uniqueListing, Identity(a))) = 1
                    /\ \E k \in 1..Len(uniqueListing) :
                         uniqueListing[k] = uniqueOf[first]
                    /\ b # uniqueOf[first]
                         => \A k \in 1..Len(uniqueListing) : uniqueListing[k] # b
               /\ (Identity(a)[1] = "url" /\ Identity(b)[1] = "url"
                     /\ a["url"] # b["url"])
                 => /\ Cardinality(Entries(uniqueListing, Identity(a))) = 1
                    /\ Cardinality(Entries(uniqueListing, Identity(b))) = 1

C11_Witness ==
    /\ Len(uniqueOf) = 3
    /\ uniqueOf[1]["model_id"] = "1" /\ uniqueOf[1]["version_id"] = "1"
    /\ uniqueOf[2]["model_id"] = "1" /\ uniqueOf[2]["version_id"] = "1"
    /\ uniqueOf[1]["url"] # uniqueOf[2]["url"]
    /\ uniqueOf[3]["model_id"] = "" /\ uniqueOf[3]["url"] = uniqueOf[1]["url"]
    /\ uniqueListing = <<uniqueOf[1], uniqueOf[3]>>

\* The number of rows of a ledger file that have an earlier row of the same
\* identity.
DuplicateRows(file) ==
    LET rows == DictReader(file)
    IN  Len(rows) - Cardinality(FirstOccurrences(rows))

NoSharedIdentity(file) ==
    LET rows == DictReader(file)
    IN  \A i, j \in 1..Len(rows) :
            i # j => Identity(rows[i]) # Identity(rows[j])

C13_AppendOnly ==
    LET all == GetAllDownloadsRaw(historyExists, historyFile)
    IN  /\ Len(all) = Len(passed)
        /\ \A i \in 1..Len(passed) :
             /\ DOMAIN all[i] = {CSV_HEADERS[k] : k \in 1..Len(CSV_HEADERS)}
             /\ all[i]["url"] = passed[i].url
             /\ all[i]["model_type"] = ModelTypeOf(passed[i].url)
             /\ all[i]["filename"] = FilenameOf(passed[i].url)
             /\ all[i]["model_id"] = IdToField(passed[i].model_id)
             /\ all[i]["version_id"] = IdToField(passed[i].version_id)
             /\ all[i]["file_size"] = "Unknown"
             /\ all[i]["file_size_bytes"] = ""

\* The requests of the scan to one provider, as positions in the trace.
RequestsTo(to) == {i \in 1..Len(trace) : trace[i].to = to}

\* The last request of the scan.
LastEvent == trace[Len(trace)]

\* The scan is over and its last request went to the archive.
ArchiveAnswered ==
    /\ pc = "sc_done"
    /\ trace # <<>>
    /\ LastEvent.to = "fallback"

\* The archive is asked once, last, after the primary provider has returned;
\* and after a 404 of the primary provider nothing but the archive is asked.
FallbackInOrder ==
    /\ \A i \in RequestsTo("fallback") :
          /\ i = Len(trace)
          /\ i > 1
          /\ trace[1].to = "primary"
          /\ primaryReturn # <<>>
    /\ \A i \in RequestsTo("primary") :
          trace[i].status = 404 =>
             /\ primaryReturn = <<None>>
             /\ IF i = Len(trace) THEN pc = "sc_fallback"
                ELSE i + 1 = Len(trace) /\ trace[i + 1].to = "fallback"

\* scan_model_file has returned the metadata, marked as found remotely.
RemotelyResolved ==
    /\ scReturned = "metadata"
    /\ metadata # None
    /\ metadata[1].from_civitai

\* C14 as stated: after a 404 of the primary provider the archive is asked,
\* never before the primary provider has returned; and whenever the archive
\* answers 200 the scan returns metadata marked as found remotely.
C14_FallbackOn200 ==
    /\ FallbackInOrder
    /\ (ArchiveAnswered /\ LastEvent.status = 200) => RemotelyResolved

\* C14: after a 404 of the primary provider the archive is asked, never
\* before the primary provider has returned; and whenever the archive answers
\* 200 with a result that is not empty, the scan returns metadata marked as
\* found remotely, with the archive's answer as the result of the search.
C14_FallbackChain ==
    /\ FallbackInOrder
    /\ (ArchiveAnswered /\ LastEvent.status = 200 /\ ~LastEvent.body[1].empty)
          => RemotelyResolved /\ model_info = LastEvent.body

C14_Witness ==
    /\ ArchiveAnswered
    /\ Len(trace) = 2
    /\ trace[1].to = "primary" /\ trace[1].status = 404
    /\ LastEvent.status = 200 /\ ~LastEvent.body[1].empty
    /\ RemotelyResolved

\* The archive was asked and gave no result: an error status, an exception
\* or an empty answer.  It is only asked after the primary provider failed.
EveryProviderFailed ==
    /\ ArchiveAnswered
    /\ LastEvent.status # 200 \/ LastEvent.body[1].empty

\* C15: when every provider has failed for a supported, existing file, the
\* scan returns metadata with the file's name, path, size and hash, the
\* category and base model of the heuristics, and nothing of a provider.
C15_LocalFieldsOnly ==
    EveryProviderFailed =>
        /\ scReturned = "metadata"
        /\ metadata # None
        /\ LET m == metadata[1]
           IN  /\ m.file_name = scFile.name
               /\ m.file_path = scFile.path
               /\ m.file_size = scFile.size
               /\ m.sha256 = scFile.hash
               /\ m.model_type = DetectModelType(scFile)
               /\ m.model_type \in Categories
               /\ m.base_model = DetectBaseModel(scFile)
               /\ ~m.from_civitai
               /\ m.model_id = None /\ m.version_id = None
               /\ m.civitai_url = None
               /\ m.download_urls = {}

C15_Witness ==
    /\ EveryProviderFailed
    /\ \E i \in RequestsTo("primary") : trace[i].status = 0
    /\ \E i \in RequestsTo("primary") : trace[i].status = 500
    /\ LastEvent.status = 200
    /\ metadata[1].model_type = "lora"
    /\ metadata[1].base_model = "SD1.5"

\* C16: every 5xx answer of the by-hash endpoint before the last attempt is
\* followed by a wait and by the next attempt.
C16_RetryOnEvery5xx ==
    \A i \in RequestsTo("primary") :
        (trace[i].status \in 500..599 /\ trace[i].attempt < max_retries - 1)
           => /\ trace[i].wait # None
              /\ primaryReturn = <<>> \/ i < Len(trace)
              /\ i < Len(trace) =>
                    /\ trace[i + 1].to = "primary"
                    /\ trace[i + 1].attempt = trace[i].attempt + 1

\* A 429 answer whose Retry-After header is absent or a number of seconds.
RateLimited(e) ==
    /\ e.to = "primary"
    /\ e.status = 429
    /\ e.header = None \/ IsDecimal(e.header[1])

C18_ParentFailureKeepsVersion ==
    /\ (trace # <<>> /\ LastEvent.to = "parent" /\ LastEvent.status # 200)
          => /\ primaryReturn = <<version_info>>
             /\ ~version_info[1].parent
    /\ (pc = "gv_done" /\ gvTrace # <<>>
        /\ gvTrace[Len(gvTrace)].to = "parent"
        /\ gvTrace[Len(gvTrace)].status # 200)
          => /\ gvResult = <<gvVersion>>
             /\ ~gvVersion[1].parent

\* The lookup of the scan found the model.
LookupSucceeded ==
    /\ pc = "sc_done"
    /\ model_info # <<>>
    /\ NonEmpty(model_info)

\* The type field of the provider's answer, '' when it is missing.
ProviderType == IF model_info[1].type = None THEN "" ELSE model_info[1].type[1]

\* C19: after a lookup that found the model, the category of the metadata is
\* the one the provider's type maps to when the type is one of the mapping,
\* and the category of the heuristics when it is missing or not one of it.
C19_ProviderTypeWins ==
    LookupSucceeded =>
        LET api_type == Upper(ProviderType)
        IN  IF api_type \in {"LORA", "LOCON", "CHECKPOINT", "TEXTUALINVERSION"}
              THEN metadata[1].model_type =
                      CASE api_type \in {"LORA", "LOCON"} -> "lora"
                        [] api_type = "CHECKPOINT" -> "checkpoint"
                        [] OTHER -> "embedding"
              ELSE metadata[1].model_type = DetectModelType(scFile)

C19_Witness ==
    /\ LookupSucceeded
    /\ ProviderType = "TextualInversion"
    /\ DetectModelType(scFile) = "lora"
    /\ metadata[1].model_type = "embedding"

C19_WitnessKept ==
    /\ LookupSucceeded
    /\ ProviderType = "Hypernetwork"
    /\ metadata[1].model_type = "lora"

\* C20: for every provider type and every category, the scanner's mapping
\* gives the category exactly when the classifier gives it and exactly when
\* the check of download_model accepts the type for it.
C20_OneAliasTable ==
    (scannerSays # "" /\ classifierSays # "" /\ manualSays # "") =>
        /\ (scannerSays = manualType) <=> (classifierSays = manualType)
        /\ (classifierSays = manualType) <=> (manualSays = "accepted")

\* The path has a segment 'models' followed by a segment of digits, which is
\* the last segment or the last but one.
ModelsUrlShapes(path) ==
    {<<i, j>> \in (1..Len(path)) \X (1..Len(path)) :
        /\ i + 3 <= j
        /\ path[i] = "/" /\ path[i + 1] = "models" /\ path[i + 2] = "/"
        /\ \A k \in (i + 3)..j : path[k] \in Digits
        /\ \/ j = Len(path)
           \/ /\ j + 2 <= Len(path)
              /\ path[j + 1] = "/"
              /\ \A k \in (j + 2)..Len(path) : path[k] # "/"}

\* The query is absent or is modelVersionId={v}.
VersionQuery(query) ==
    \/ query = <<>>
    \/ /\ Len(query) = 1
       /\ query[1][1] = "modelVersionId"
       /\ IsNumber(query[1][2])

\* C21: for a URL .../models/{id}, with or without a slug and with or without
\* ?modelVersionId={v}, parse_url returns id and v (no version id without the
\* parameter); for a URL with no numeric model id in a /models/ segment it
\* raises the error for an invalid URL.
C21_ParseUrl ==
    (parsed # "pending" /\ givenUrl.host = "civitai.com") =>
        /\ \A s \in ModelsUrlShapes(givenUrl.path) :
              VersionQuery(givenUrl.query) =>
                 parsed =
                   <<Some(DigitsToInt(SubSeq(givenUrl.path, s[1] + 3, s[2]))),
                     IF givenUrl.query = <<>> THEN None
                     ELSE Some(DigitsToInt(givenUrl.query[1][2]))>>
        /\ PathMatches(givenUrl.path) = {} => parsed = "ValueError"

\* C22: whatever the case of its letters, a provider type lora, locon or dora
\* is classified as lora, checkpoint as checkpoint and textualinversion as
\* embedding; every other type and the empty one get no category; and the
\* reason returned is never empty.
C22_ClassifierMapping ==
    classifierSays # "" =>
        /\ classifierReason # ""
        /\ classifierSays =
              CASE provType \in {"LORA", "lora", "LoRA", "LoCon", "locon",
                                 "DoRA", "dora"} -> "lora"
                [] provType \in {"Checkpoint", "checkpoint", "CHECKPOINT"}
                      -> "checkpoint"
                [] provType \in {"TextualInversion", "textualinversion"}
                      -> "embedding"
                [] OTHER -> "None"

C22_Witness ==
    /\ provType = "DoRA"
    /\ classifierSays = "lora"
    /\ classifierReason # ""

\* The lower-case forms of the tags given.
TagsLower == {Lower(tags[k]) : k \in 1..Len(tags)}

\* C23: the subcategory is None without tags and 'other' when no tag is a
\* known subcategory; otherwise it is one of the tags, and 'style' is
\* preferred to 'character' and 'character' to 'concept'.
C23_SubcategoryPriority ==
    lora_subcategory # "pending" =>
        /\ tags = <<>> <=> lora_subcategory = None
        /\ tags # <<>> =>
              /\ lora_subcategory[1] = "other" <=>
                    TagsLower \cap {"style", "poses", "concept", "character",
                                    "clothing", "background", "objects"} = {}
              /\ lora_subcategory[1] # "other" =>
                    lora_subcategory[1] \in TagsLower
              /\ "style" \in TagsLower => lora_subcategory[1] = "style"
              /\ lora_subcategory[1] = "concept" =>
                    "character" \notin TagsLower

\* The entries scan_directory has to scan whose own scan raises nothing.
ScannableEntries ==
    {k \in 1..Len(dirListing[1]) :
        LET e == dirListing[1][k]
        IN  /\ Listed(e, recursive)
            /\ Lower(e.file.ext) \in supported_extensions
            /\ e.file.exists
            /\ e.getsize = "ok"}

\* C24: when scan_directory has returned, every supported file below the
\* directory whose own scan raised nothing was scanned, and its metadata is
\* in the list returned, also when the scan of another file raised.
C24_OneFailureDoesNotAbort ==
    (dirReturned /\ dirListing # None) =>
        \A k \in ScannableEntries :
            \E n \in 1..Len(metadata_list) :
                /\ scannedAt[n] = k
                /\ metadata_list[n].file_path = dirListing[1][k].file.path

\* C25: the loop of redownload_all takes up the entries one by one in their
\* order, whatever became of the earlier ones; the three counts add up to the
\* number of entries taken up, and to the number of all entries at the end.
C25_EveryEntryOnce ==
    /\ processed = [k \in 1..rdPos |-> k]
    /\ success_count + error_count + skipped = rdPos
    /\ pc = "rd_done" =>
          /\ rdPos = Len(rdDownloads)
          /\ success_count + error_count + skipped = Len(rdDownloads)

C25_Witness ==
    /\ pc = "rd_done"
    /\ Len(rdDownloads) = 3
    /\ success_count = 1 /\ error_count = 1 /\ skipped = 1
    /\ attempted = <<1, 3>>

\* C26: when the redownload-all command has gone through the history, a
\* download was attempted for every entry of it, with and without --force.
C26_AttemptsEveryEntry ==
    pc = "rd_done" => attempted = [k \in 1..Len(rdDownloads) |-> k]

\* The ids of an entry are both given.
HasPair(m) == Truthy(m.model_id) /\ Truthy(m.version_id)

\* The entries the import has to append: those whose pair of ids is neither
\* in the ledger it started from nor in an earlier entry.
EntriesToAppend ==
    {k \in 1..Len(importList) :
        LET m == importList[k]
        IN  HasPair(m) =>
              /\ ~CheckModelDownloaded(TRUE, historyAtStart, m.model_id[1],
                                       m.version_id[1])
              /\ \A j \in 1..(k - 1) :
                    ~(/\ importList[j].model_id = m.model_id
                      /\ importList[j].version_id = m.version_id)}

\* C27: when convert_to_csv has returned, the ledger has one more record for
\* every entry whose pair of ids was not yet recorded, none for the others,
\* and the number returned is the number of records appended.
C27_ImportAppendsNew ==
    importReturned # -1 =>
        /\ importReturned = Cardinality(EntriesToAppend)
        /\ Len(historyFile) = Len(historyAtStart) + importReturned
        /\ \A k \in EntriesToAppend :
              HasPair(importList[k]) =>
                 CheckModelDownloaded(TRUE, historyFile,
                                      importList[k].model_id[1],
                                      importList[k].version_id[1])

\* C28: when the server supplied a content-length, download_file renames the
\* temporary file to the final path only if the bytes counted, and the bytes
\* the temporary file holds, equal the expected total size (content-length,
\* plus the resume offset on 206).
C28_RenameOnlyWhenComplete ==
    [][(renames' = renames + 1 /\ contentLength > 0) =>
          (downloaded = total_size /\ Len(part) = total_size)]_vars

\* The record kept stands for the record r: the same pair of ids when r has
\* both, the same URL otherwise.
StandsFor(kept, r) ==
    IF ~Falsy(Get(r, "model_id", "")) /\ ~Falsy(Get(r, "version_id", ""))
      THEN /\ Get(kept, "model_id", "") = Get(r, "model_id", "")
           /\ Get(kept, "version_id", "") = Get(r, "version_id", "")
    ELSE Get(kept, "url", "") = Get(r, "url", "")

IdentitiesKept(rows, keptRows) ==
    \A i \in 1..Len(rows) :
       \E j \in 1..Len(keptRows) : StandsFor(keptRows[j], rows[i])

\* C29: deduplication never loses an identity: every record of the ledger has
\* a record of the same pair of ids (of the same URL when it lacks an id) in
\* the list get_all_downloads(remove_duplicates=True) returns and in the
\* ledger clean_duplicates leaves.
C29_NoIdentityLost ==
    /\ IdentitiesKept(uniqueOf, uniqueListing)
    /\ cleanResult # -1 =>
          IdentitiesKept(DictReader(cleanedFrom), DictReader(cleanedTo))

\* C30: in a command whose validate() returned True, get_download_path
\* succeeds for every category a model is stored under.
C30_ValidatedPathsResolve ==
    validateResult = "True" =>
        \A c \in Categories : pathResult[c] \in {"pending", "path"}
====
